---- MODULE Spec2Model ----
(***************************************************************************)
(* git-browser: repository discovery, incremental commit indexing and      *)
(* branch comparison.                                                      *)
(*                                                                         *)
(* The model covers the VCS accessor's history walk (Git2Client), the      *)
(* SQLite stores (repositories, branches, commits), the index worker       *)
(* (IndexWorker) and the indexer scheduler (IndexerScheduler).             *)
(*                                                                         *)
(* Commit identifiers are the naturals 1..Len(odb); NoOid (0) stands for   *)
(* "no commit" (Option::None, an unresolved ref).  Every commit of a graph *)
(* has its own commit time: the order libgit2's time-sorted walk gives to  *)
(* commits of equal time is left to its heap and is not modelled.          *)
(***************************************************************************)
EXTENDS Integers, Sequences, FiniteSets, TLC

VARIABLES
    odb,            \* the object database: odb[o] is commit o
    refs,           \* refs[path][name]: tip of remote-tracking branch, or NoOid
    repositories,   \* rows of table repositories, in rowid order
    branches,       \* rows of table branches (a set, keyed by repository_id, name)
    commits,        \* rows of table commits, in rowid order
    now,            \* Utc::now(), in seconds
    scanOrder,      \* the order in which SQLite scans table commits
    limitCfg,       \* config.indexer.max_commits_per_branch
    state,          \* scheduler: "Idle" or "Running"
    tasks,          \* the tasks spawned by the running cycle
    stats,          \* IndexStats of the last aggregated cycle
    moves,          \* how many times a remote-tracking ref has moved
    cycles,         \* how many cycles have started
    triggers,       \* how many out-of-band runs (manual trigger, index pass) have run
    fs,             \* the file system: what each scan path is
    last            \* the last operation completed and what it returned

vars == <<odb, refs, repositories, branches, commits, now, scanOrder, limitCfg,
          state, tasks, stats, moves, cycles, triggers, fs, last>>

-----------------------------------------------------------------------------
(* Bounds of the model *)

MaxCommits == 4     \* commits of an enumerated history
MaxLimit == 3       \* small values of `limit` tried besides the default
MaxMoves == 3       \* moves of remote-tracking refs
MaxRuns == 1        \* indexing cycles and out-of-band runs

(* Program constants *)

DefaultMaxCommitsPerBranch == 2000

NoOid == 0

-----------------------------------------------------------------------------
(* Helpers on sequences and sets *)

Range(s) == {s[i] : i \in 1..Len(s)}

Max(S) == CHOOSE x \in S : \A y \in S : y <= x

-----------------------------------------------------------------------------
(* The object database *)

Oids(g) == 1..Len(g)

\* git2::Commit::parent_count
ParentCount(g, o) == Len(g[o].parents)

IsMerge(g, o) == ParentCount(g, o) > 1

RECURSIVE ReachFrom(_, _, _)
ReachFrom(g, frontier, seen) ==
    IF frontier = {} THEN seen
    ELSE LET seen2 == seen \cup frontier
             nxt == UNION {Range(g[o].parents) : o \in frontier}
         IN  ReachFrom(g, nxt \ seen2, seen2)

\* every commit the walk pushed at `tip` can reach, `tip` included
Reachable(g, tip) == IF tip = NoOid THEN {} ELSE ReachFrom(g, {tip}, {})

\* the commit of S the time-sorted walk yields first: the newest commit time
Newest(g, S) ==
    CHOOSE o \in S : \A p \in S :
        \/ g[p].ctime < g[o].ctime
        \/ (g[p].ctime = g[o].ctime /\ p <= o)

RECURSIVE SortByTime(_, _)
SortByTime(g, S) ==
    IF S = {} THEN <<>>
    ELSE LET o == Newest(g, S) IN <<o>> \o SortByTime(g, S \ {o})

\* revwalk with Sort::TIME after push_ref: libgit2 loads the history that the
\* pushed ref reaches and hands it out newest commit time first
Revwalk(g, tip) == SortByTime(g, Reachable(g, tip))

\* the GitCommit record built from a git2 commit
GitCommit(g, o) ==
    [oid |-> o,
     author_name |-> g[o].author,
     author_time |-> g[o].atime,
     committer_time |-> g[o].ctime,
     summary |-> g[o].summary,
     parent_oids |-> g[o].parents]

\* variant of GetCommitsLoop that records merge commits too
RECURSIVE GetCommitsLoopKeepMerges(_, _, _, _, _, _)
GetCommitsLoopKeepMerges(g, walk, idx, limit, since, acc) ==
    IF idx >= Len(walk) THEN acc
    ELSE IF idx >= limit THEN acc
    ELSE IF since # NoOid /\ walk[idx + 1] = since THEN acc
    ELSE GetCommitsLoopKeepMerges(g, walk, idx + 1, limit, since,
                                  Append(acc, GitCommit(g, walk[idx + 1])))

\* the loop of Git2Client::get_commits over the walk, idx counting every commit seen
RECURSIVE GetCommitsLoop(_, _, _, _, _, _)
GetCommitsLoop(g, walk, idx, limit, since, acc) ==
    IF idx >= Len(walk) THEN acc                       \* iterator exhausted
    ELSE IF idx >= limit THEN acc                      \* if idx >= limit { break }
    ELSE IF since # NoOid /\ walk[idx + 1] = since THEN acc   \* oid == since: break
    ELSE IF ParentCount(g, walk[idx + 1]) > 1
         THEN GetCommitsLoop(g, walk, idx + 1, limit, since, acc)   \* continue
    ELSE GetCommitsLoop(g, walk, idx + 1, limit, since,
                        Append(acc, GitCommit(g, walk[idx + 1])))

\* Git2Client::get_commits: Err when the ref does not resolve
GetCommits(g, tip, limit, since) ==
    IF tip = NoOid
    THEN [ok |-> FALSE, commits |-> <<>>]
    ELSE [ok |-> TRUE,
          commits |-> GetCommitsLoop(g, Revwalk(g, tip), 0, limit, since, <<>>)]

-----------------------------------------------------------------------------
(* Remote-tracking branches of a working copy *)

Paths == {"p1", "p2"}

\* a remote-tracking branch name "origin/main" is the pair <<"origin", "main">>
BranchNames == << <<"origin", "feature">>, <<"origin", "main">>, <<"upstream", "dev">> >>

\* format!("refs/remotes/{}", branch.name)
RefName(name) == <<"refs", "remotes">> \o name

\* git2::Branch::name: the shorthand of a reference under refs/remotes/
Shorthand(ref) == SubSeq(ref, 3, Len(ref))

\* the remote-tracking references in the order repo.branches() yields them
RemoteRefSeq == [i \in 1..Len(BranchNames) |-> RefName(BranchNames[i])]

RemoteRefs == Range(RemoteRefSeq)

NoRefs == [p \in Paths |-> [r \in RemoteRefs |-> NoOid]]

\* repo.head().name() of every working copy: a local branch is checked out
HeadName == <<"refs", "heads", "main">>

RECURSIVE ListBranchesFrom(_, _)
ListBranchesFrom(pathRefs, i) ==
    IF i > Len(RemoteRefSeq) THEN <<>>
    ELSE LET name == Shorthand(RemoteRefSeq[i])
             target == pathRefs[RemoteRefSeq[i]]
         IN  (IF target = NoOid
              THEN <<>>                                  \* skipped: no target
              ELSE <<[name |-> name, target_oid |-> target,
                      is_head |-> (HeadName = name)]>>)
             \o ListBranchesFrom(pathRefs, i + 1)

\* Git2Client::list_branches
ListBranches(pathRefs) == ListBranchesFrom(pathRefs, 1)

-----------------------------------------------------------------------------
(* The stores *)

\* variant of CommitKey that leaves the branch out of the unique key
CommitKeyNoBranch(c) == <<c.repository_id, c.oid>>

\* variant of CommitKey without the repository: the rows of two repositories
\* for one oid and branch name collide
CommitKeyNoRepo(c) == <<c.oid, c.branch>>

\* UNIQUE(repository_id, oid, branch), the conflict target of the inserts
CommitKey(c) == <<c.repository_id, c.oid, c.branch>>

BranchKey(b) == <<b.repository_id, b.name>>

\* variant of InsertOrIgnore with no unique key: every row is appended
InsertAlways(rows, c) == Append(rows, c)

\* INSERT ... ON CONFLICT(repository_id, oid, branch) DO NOTHING
InsertOrIgnore(rows, c) ==
    IF \E i \in 1..Len(rows) : CommitKey(rows[i]) = CommitKey(c)
    THEN rows
    ELSE Append(rows, c)

\* variant of BulkInsert that replaces the table's content by the batch
BulkInsertReplacing(rows, batch) == batch

\* SqliteCommitRepository::bulk_insert, the committed transaction
RECURSIVE BulkInsert(_, _)
BulkInsert(rows, batch) ==
    IF batch = <<>> THEN rows
    ELSE BulkInsert(InsertOrIgnore(rows, Head(batch)), Tail(batch))

Min(S) == CHOOSE x \in S : \A y \in S : x <= y

\* variant of GetLatestCommit that leaves the branch out of the WHERE clause
GetLatestCommitAnyBranch(rows, rid, name, order) ==
    LET cand == {i \in 1..Len(rows) : rows[i].repository_id = rid}
        top == {i \in cand : \A j \in cand : rows[j].author_time <= rows[i].author_time}
    IN  IF cand = {} THEN NoOid
        ELSE IF order = "rowid" THEN rows[Min(top)].oid
        ELSE IF order = "time_index" THEN rows[Max(top)].oid
        ELSE Min({rows[i].oid : i \in top})

\* SqliteCommitRepository::get_latest_commit: ORDER BY author_time DESC LIMIT 1;
\* among rows of equal author_time SQLite's sorter keeps the row it scanned first
GetLatestCommit(rows, rid, name, order) ==
    LET cand == {i \in 1..Len(rows) :
                    rows[i].repository_id = rid /\ rows[i].branch = name}
        top == {i \in cand : \A j \in cand : rows[j].author_time <= rows[i].author_time}
    IN  IF cand = {} THEN NoOid
        ELSE IF order = "rowid" THEN rows[Min(top)].oid
        ELSE IF order = "time_index" THEN rows[Max(top)].oid
        ELSE Min({rows[i].oid : i \in top})

\* variant of UpsertBranch whose conflict clause keeps the stored row
UpsertBranchKeepOld(bset, b) ==
    IF \E x \in bset : BranchKey(x) = BranchKey(b) THEN bset ELSE bset \cup {b}

\* variant of the branch upsert whose conflict target is the name alone
UpsertBranchByName(bset, b) == {x \in bset : x.name # b.name} \cup {b}

\* INSERT INTO branches ... ON CONFLICT(repository_id, name) DO UPDATE SET ...
UpsertBranch(bset, b) == {x \in bset : BranchKey(x) # BranchKey(b)} \cup {b}

\* variant of SaveMany that writes only the branches the worker will index
RECURSIVE SaveManyOriginOnly(_, _)
SaveManyOriginOnly(bset, entities) ==
    IF entities = <<>> THEN bset
    ELSE SaveManyOriginOnly(IF Head(entities).name[1] = "origin"
                            THEN UpsertBranch(bset, Head(entities)) ELSE bset,
                            Tail(entities))

\* SqliteBranchRepository::save_many, the committed transaction
RECURSIVE SaveMany(_, _)
SaveMany(bset, entities) ==
    IF entities = <<>> THEN bset
    ELSE SaveMany(UpsertBranch(bset, Head(entities)), Tail(entities))

-----------------------------------------------------------------------------
(* The index worker *)

\* what can go wrong while one branch is indexed
BranchFaults == {"none", "latest", "vcs", "panic", "insert"}

OriginNames == {BranchNames[i] : i \in {j \in 1..Len(BranchNames) : BranchNames[j][1] = "origin"}}

NoBranchFault == [n \in OriginNames |-> "none"]

NoFault == [list |-> FALSE, save |-> FALSE, br |-> NoBranchFault]

\* the Branch entity built from a GitBranch (worker.rs, index_repository)
BranchEntity(rid, b, t) ==
    [repository_id |-> rid, name |-> b.name, target_oid |-> b.target_oid,
     is_default |-> b.is_head, updated_at |-> t]

\* Commit::new(..).with_message(..).with_parents(..) (worker.rs, index_branch)
DomainCommit(rid, name, c, t) ==
    [repository_id |-> rid, oid |-> c.oid, branch |-> name,
     author_name |-> c.author_name, author_time |-> c.author_time,
     committer_time |-> c.committer_time, summary |-> c.summary,
     parent_oids |-> c.parent_oids, created_at |-> t]

\* IndexWorker::index_branch
IndexBranch(rows, rid, g, pathRefs, name, limit, order, t, fault) ==
    LET since == GetLatestCommit(rows, rid, name, order)
        got == GetCommits(g, pathRefs[RefName(name)], limit, since)
        batch == [i \in 1..Len(got.commits) |-> DomainCommit(rid, name, got.commits[i], t)]
    IN  IF fault = "latest" THEN [status |-> "err", rows |-> rows, count |-> 0]
        ELSE IF fault = "vcs" \/ ~got.ok THEN [status |-> "err", rows |-> rows, count |-> 0]
        ELSE IF got.commits = <<>> THEN [status |-> "ok", rows |-> rows, count |-> 0]
        ELSE IF fault = "panic" THEN [status |-> "panic", rows |-> rows, count |-> 0]
        ELSE IF fault = "insert" THEN [status |-> "err", rows |-> rows, count |-> 0]
        ELSE [status |-> "ok", rows |-> BulkInsert(rows, batch), count |-> Len(batch)]

NoResult == [commits_indexed |-> 0, branches_indexed |-> 0, branches_failed |-> 0]

\* variant of IndexBranches in which the first failed branch ends the loop and
\* the pass returns the error
RECURSIVE IndexBranchesAbort(_, _, _, _, _, _, _, _, _, _)
IndexBranchesAbort(list, i, rows, rid, g, pathRefs, limit, order, t, acc) ==
    IF i > Len(list) THEN [status |-> "ok", rows |-> rows, result |-> acc.result]
    ELSE IF list[i].name[1] # "origin"
         THEN IndexBranchesAbort(list, i + 1, rows, rid, g, pathRefs, limit, order, t, acc)
    ELSE LET r == IndexBranch(rows, rid, g, pathRefs, list[i].name, limit, order, t,
                              acc.faults.br[list[i].name])
         IN  IF r.status # "ok"
             THEN [status |-> r.status, rows |-> r.rows, result |-> acc.result]
             ELSE IndexBranchesAbort(list, i + 1, r.rows, rid, g, pathRefs, limit, order, t,
                    [acc EXCEPT !.result = [@ EXCEPT !.commits_indexed = @ + r.count,
                                                     !.branches_indexed = @ + 1]])

\* the loop over the listed branches (worker.rs, index_repository)
RECURSIVE IndexBranches(_, _, _, _, _, _, _, _, _, _)
IndexBranches(list, i, rows, rid, g, pathRefs, limit, order, t, acc) ==
    IF i > Len(list) THEN [status |-> "ok", rows |-> rows, result |-> acc.result]
    ELSE IF list[i].name[1] # "origin"            \* !starts_with("origin/"): continue
         THEN IndexBranches(list, i + 1, rows, rid, g, pathRefs, limit, order, t, acc)
    ELSE LET r == IndexBranch(rows, rid, g, pathRefs, list[i].name, limit, order, t,
                              acc.faults.br[list[i].name])
         IN  IF r.status = "panic"
             THEN [status |-> "panic", rows |-> r.rows, result |-> acc.result]
             ELSE IndexBranches(list, i + 1, r.rows, rid, g, pathRefs, limit, order, t,
                    [acc EXCEPT !.result =
                        IF r.status = "ok"
                        THEN [@ EXCEPT !.commits_indexed = @ + r.count,
                                       !.branches_indexed = @ + 1]
                        ELSE [@ EXCEPT !.branches_failed = @ + 1]])

\* variant of index_repository whose branch save is not a transaction: the
\* statements before the failed one stay written
IndexRepositoryAutocommit(bset, rows, rid, g, pathRefs, limit, order, t, faults) ==
    LET list == ListBranches(pathRefs)
        entities == [i \in 1..Len(list) |-> BranchEntity(rid, list[i], t)]
        saved == IF entities = <<>> THEN bset ELSE SaveMany(bset, entities)
        r == IndexBranches(list, 1, rows, rid, g, pathRefs, limit, order, t,
                           [faults |-> faults, result |-> NoResult])
    IN  IF faults.list
        THEN [status |-> "err", branches |-> bset, rows |-> rows, result |-> NoResult]
        ELSE IF entities # <<>> /\ faults.save
        THEN [status |-> "err",
              branches |-> SaveMany(bset, SubSeq(entities, 1, Len(entities) - 1)),
              rows |-> rows, result |-> NoResult]
        ELSE [status |-> r.status, branches |-> saved, rows |-> r.rows,
              result |-> r.result]

\* IndexWorker::index_repository: the stores after the pass and what it returns
IndexRepository(bset, rows, rid, g, pathRefs, limit, order, t, faults) ==
    LET list == ListBranches(pathRefs)
        entities == [i \in 1..Len(list) |-> BranchEntity(rid, list[i], t)]
        saved == IF entities = <<>> THEN bset ELSE SaveMany(bset, entities)
        r == IndexBranches(list, 1, rows, rid, g, pathRefs, limit, order, t,
                           [faults |-> faults, result |-> NoResult])
    IN  IF faults.list
        THEN [status |-> "err", branches |-> bset, rows |-> rows, result |-> NoResult]
        ELSE IF entities # <<>> /\ faults.save
        THEN [status |-> "err", branches |-> bset, rows |-> rows, result |-> NoResult]
        ELSE [status |-> r.status, branches |-> saved, rows |-> r.rows,
              result |-> r.result]

-----------------------------------------------------------------------------
(* Enumerated histories: one root, every later commit has one or two       *)
(* parents among the earlier ones, commit times are a permutation.         *)

ParentChoices(i) ==
    IF i = 1 THEN {<<>>}
    ELSE {<<p>> : p \in 1..(i - 1)}
         \cup {pq \in (1..(i - 1)) \X (1..(i - 1)) : pq[1] > pq[2]}

RECURSIVE ParentSeqs(_)
ParentSeqs(n) ==
    IF n = 0 THEN {<<>>}
    ELSE {Append(s, ps) : s \in ParentSeqs(n - 1), ps \in ParentChoices(n)}

RECURSIVE Perms(_)
Perms(n) ==
    IF n = 0 THEN {<<>>}
    ELSE UNION {{[i \in 1..n |-> IF i < k THEN p[i] ELSE IF i = k THEN n ELSE p[i - 1]]
                    : k \in 1..n} : p \in Perms(n - 1)}

Object(ps, ct, at, au, su) ==
    [parents |-> ps, ctime |-> ct, atime |-> at, author |-> au, summary |-> su]

\* the histories of n commits with author time = commit time
Histories(n) ==
    {[o \in 1..n |-> Object(ps[o], ct[o], ct[o], "a", "s")] :
        ps \in ParentSeqs(n), ct \in Perms(n)}

-----------------------------------------------------------------------------
(* State shared by every specification when the part is not exercised *)

\* What is on disk at a scan path: the paths that exist at or below it, each
\* as the sequence of its components below the scan path (<<>> is the scan
\* path itself)
Missing == {}
PlainDir == {<<>>}
WorkTree == {<<>>, <<".git">>}
BareRepo == {<<>>, <<"packed-refs">>}
\* a directory that holds a working copy one level down
NestedRepo == {<<>>, <<"sub">>, <<"sub", ".git">>}

\* no scan path exists
NoDisk == [e \in {"p1", "p2"} |-> Missing]

NoStats == [repos_discovered |-> 0, repos_synced |-> 0, repos_failed |-> 0]

EmptyStore ==
    /\ repositories = <<>>
    /\ branches = {}
    /\ commits = <<>>

SchedulerIdle ==
    /\ state = "Idle"
    /\ tasks = <<>>
    /\ stats = NoStats
    /\ moves = 0
    /\ cycles = 0
    /\ triggers = 0

-----------------------------------------------------------------------------
(* Specification SpecWalk: get_commits on enumerated histories *)

Limits == 0..MaxLimit \cup {DefaultMaxCommitsPerBranch}

InitWalk ==
    /\ odb \in UNION {Histories(n) : n \in 1..MaxCommits}
    /\ refs = NoRefs
    /\ EmptyStore
    /\ SchedulerIdle
    /\ fs = NoDisk
    /\ now = 0
    /\ scanOrder = "rowid"
    /\ limitCfg = DefaultMaxCommitsPerBranch
    /\ last = [op |-> "none"]

CallGetCommits ==
    /\ \E tip \in Oids(odb), since \in {NoOid} \cup Oids(odb), limit \in Limits :
          last' = [op |-> "get_commits", tip |-> tip, since |-> since,
                   limit |-> limit, result |-> GetCommits(odb, tip, limit, since)]
    /\ UNCHANGED <<odb, refs, repositories, branches, commits, now, scanOrder,
                   limitCfg, state, tasks, stats, moves, cycles, triggers, fs>>

NextWalk == CallGetCommits

SpecWalk == InitWalk /\ [][NextWalk]_vars

-----------------------------------------------------------------------------
(* Specification SpecIndex: index passes over one repository whose refs move *)

\* a history with a side branch (3), older than the main line's commit 2, merged
\* in (4), and a commit older than its parent (6): parents and commit times
IndexParents == << <<>>, <<1>>, <<1>>, <<2, 3>>, <<4>>, <<5>> >>
IndexCTimes == <<1, 3, 2, 4, 6, 5>>

\* author times: as committed; all in the same second; rebased (newest first)
IndexATimes == {<<1, 3, 2, 4, 6, 5>>, <<1, 1, 1, 1, 1, 1>>, <<6, 5, 4, 3, 2, 1>>}

IndexHistory(at) ==
    [o \in 1..Len(IndexParents) |->
        Object(IndexParents[o], IndexCTimes[o], at[o], "a", "s")]

NoTime == -1

\* Repository::new
NewRepository(name, path, t) ==
    [name |-> name, path |-> path, last_synced_at |-> NoTime,
     created_at |-> t, updated_at |-> t]

RepoA == [id |-> 1] @@ NewRepository("p1", "p1", 0)

\* table order, the unique index (repository_id, oid, branch), or an index on
\* author_time read backwards
ScanOrders == {"rowid", "oid", "time_index"}

\* the tips a ref takes: origin/main moves to any commit or is deleted, the
\* other two stay where they are
RefTips(r) ==
    IF r = RefName(<<"origin", "main">>) THEN 0..Len(IndexParents)
    ELSE IF r = RefName(<<"origin", "feature">>) THEN {3}
    ELSE {1}

IndexRefs ==
    [r \in RemoteRefs |-> IF r = RefName(<<"origin", "main">>) THEN NoOid
                          ELSE CHOOSE t \in RefTips(r) : TRUE]

InitIndex ==
    /\ odb \in {IndexHistory(at) : at \in IndexATimes}
    /\ refs = [p \in Paths |-> IF p = "p1" THEN IndexRefs ELSE NoRefs[p]]
    /\ repositories = <<RepoA>>
    /\ branches = {}
    /\ commits = <<>>
    /\ SchedulerIdle
    /\ fs = NoDisk
    /\ now = 0
    /\ scanOrder \in ScanOrders
    /\ limitCfg \in (1..MaxLimit) \cup {DefaultMaxCommitsPerBranch}
    /\ last = [op |-> "none"]

\* a fetch or a push moves, creates or deletes a remote-tracking ref
MoveRef(p) ==
    /\ moves < MaxMoves
    /\ \E r \in RemoteRefs, tip \in {NoOid} \cup Oids(odb) :
          /\ tip \in RefTips(r)
          /\ refs[p][r] # tip
          /\ refs' = [refs EXCEPT ![p][r] = tip]
    /\ moves' = moves + 1
    /\ last' = [op |-> "move_ref"]
    /\ UNCHANGED <<odb, repositories, branches, commits, now, scanOrder, limitCfg,
                   state, tasks, stats, cycles, triggers, fs>>

BranchKeys(bset) == {BranchKey(b) : b \in bset}

\* a caller runs IndexWorker::index_repository(rid, path) to its end
IndexPass(rid, p) ==
        LET r == IndexRepository(branches, commits, rid, odb, refs[p], limitCfg,
                                 scanOrder, now, NoFault)
        IN  /\ branches' = r.branches
            /\ commits' = r.rows
            /\ last' = [op |-> "index_repository", rid |-> rid, status |-> r.status,
                        result |-> r.result, clean |-> TRUE,
                        second |-> (/\ last.op = "index_repository"
                                    /\ last.rid = rid
                                    /\ last.clean),
                        changed |-> (\/ r.rows # commits
                                     \/ BranchKeys(r.branches) # BranchKeys(branches))]
            /\ UNCHANGED <<odb, refs, repositories, now, scanOrder, limitCfg,
                           state, tasks, stats, moves, cycles, triggers, fs>>

NextIndex ==
    \/ MoveRef("p1")
    \/ IndexPass(1, "p1")

SpecIndex == InitIndex /\ [][NextIndex]_vars

-----------------------------------------------------------------------------
(* Repository discovery and the repositories table *)

\* config.projects: the (base, scan_path) pairs, by the path they join to
ScanEntries == <<"p1", "p2">>

\* Path::canonicalize: "l1" is a symbolic link to p1
Canonical(e) == IF e = "l1" THEN "p1" ELSE e

\* Path::exists of the scan path joined with rel
PathExists(tree, rel) == rel \in tree

\* variant of IsGitRepo that looks for a repository anywhere below the path
IsGitRepoDeep(tree) ==
    \E rel \in tree : Len(rel) > 0 /\ rel[Len(rel)] \in {".git", "packed-refs"}

\* RepositoryDiscovery::is_git_repo:
\* path.join(".git").exists() || path.join("packed-refs").exists()
IsGitRepo(tree) == PathExists(tree, <<".git">>) \/ PathExists(tree, <<"packed-refs">>)

\* variant of DiscoverEntries in which the first entry that is missing or not
\* a repository ends the scan
RECURSIVE DiscoverEntriesStopAtBad(_, _, _)
DiscoverEntriesStopAtBad(entries, disk, i) ==
    IF i > Len(entries) THEN <<>>
    ELSE IF ~PathExists(disk[entries[i]], <<>>) \/ ~IsGitRepo(disk[entries[i]]) THEN <<>>
    ELSE <<[name |-> entries[i], path |-> Canonical(entries[i])]>>
         \o DiscoverEntriesStopAtBad(entries, disk, i + 1)

\* RepositoryDiscovery::discover_all over the configured entries and the file
\* system `disk`: each entry that is a repository is pushed, named by its last
\* component, with its canonical path
RECURSIVE DiscoverEntries(_, _, _)
DiscoverEntries(entries, disk, i) ==
    IF i > Len(entries) THEN <<>>
    ELSE (IF ~PathExists(disk[entries[i]], <<>>) THEN <<>>     \* warn, continue
          ELSE IF IsGitRepo(disk[entries[i]])
          THEN <<[name |-> entries[i], path |-> Canonical(entries[i])]>>
          ELSE <<>>)                       \* not a git repository
         \o DiscoverEntries(entries, disk, i + 1)

DiscoverFrom(disk, i) == DiscoverEntries(ScanEntries, disk, i)

DiscoverAll(disk) == DiscoverFrom(disk, 1)

NoRow == [id |-> 0]

\* SqliteRepositoryRepository::find_by_path
FindByPath(repos, path) ==
    IF \E i \in 1..Len(repos) : repos[i].path = path
    THEN repos[CHOOSE i \in 1..Len(repos) : repos[i].path = path]
    ELSE NoRow

\* SqliteRepositoryRepository::find_by_id
FindById(repos, id) ==
    IF \E i \in 1..Len(repos) : repos[i].id = id
    THEN repos[CHOOSE i \in 1..Len(repos) : repos[i].id = id]
    ELSE NoRow

\* variant of SaveRepository without the conflict clause: every save adds a row
SaveRepositoryInsert(repos, repo) ==
    Append(repos, [id |-> Len(repos) + 1, name |-> repo.name, path |-> repo.path,
                   last_synced_at |-> repo.last_synced_at,
                   created_at |-> repo.created_at, updated_at |-> repo.updated_at])

\* SqliteRepositoryRepository::save: INSERT ... ON CONFLICT(path) DO UPDATE SET
\* name, last_synced_at, updated_at ... RETURNING id
SaveRepository(repos, repo) ==
    IF \E i \in 1..Len(repos) : repos[i].path = repo.path
    THEN [i \in 1..Len(repos) |->
            IF repos[i].path = repo.path
            THEN [repos[i] EXCEPT !.name = repo.name,
                                  !.last_synced_at = repo.last_synced_at,
                                  !.updated_at = repo.updated_at]
            ELSE repos[i]]
    ELSE Append(repos, [id |-> Len(repos) + 1, name |-> repo.name, path |-> repo.path,
                        last_synced_at |-> repo.last_synced_at,
                        created_at |-> repo.created_at, updated_at |-> repo.updated_at])

\* SqliteRepositoryRepository::update_sync_time
UpdateSyncTime(repos, id, t) ==
    [i \in 1..Len(repos) |->
        IF repos[i].id = id
        THEN [repos[i] EXCEPT !.last_synced_at = t, !.updated_at = t]
        ELSE repos[i]]

-----------------------------------------------------------------------------
(* The indexer scheduler *)

\* the faults tried in a scheduled or triggered pass: at most one thing fails
SingleFaults ==
    {NoFault, [NoFault EXCEPT !.list = TRUE], [NoFault EXCEPT !.save = TRUE]}
    \cup {[NoFault EXCEPT !.br[<<"origin", "main">>] = k] : k \in BranchFaults}

\* the tips a fetch may bring for origin/main
FetchTips == {5}

NewTask(repo_info) ==
    [name |-> repo_info.name, path |-> repo_info.path, pc |-> "row",
     rid |-> 0, fetch |-> "none", index |-> "none", outcome |-> "running"]

\* variant of Spawn in which a tick is served while a cycle is running: its
\* tasks are spawned beside the ones still live
SpawnOverlapping(discovered) ==
    /\ state' = "Running"
    /\ tasks' = tasks \o [i \in 1..Len(discovered) |-> NewTask(discovered[i])]
    /\ stats' = [NoStats EXCEPT !.repos_discovered = Len(discovered)]
    /\ last' = [op |-> "start_cycle"]
    /\ UNCHANGED <<odb, refs, repositories, branches, commits, scanOrder,
                   limitCfg, moves, triggers, fs>>

\* the loop of start is at interval.tick().await and the tick fires:
\* run_index_cycle spawns one task per discovered repository
Spawn(discovered) ==
    /\ state = "Idle"
    /\ state' = "Running"
    /\ tasks' = [i \in 1..Len(discovered) |-> NewTask(discovered[i])]
    /\ stats' = [NoStats EXCEPT !.repos_discovered = Len(discovered)]
    /\ last' = [op |-> "start_cycle"]
    /\ UNCHANGED <<odb, refs, repositories, branches, commits, scanOrder,
                   limitCfg, moves, triggers, fs>>

\* a cycle of a bounded run: the cycle is counted and the clock has advanced
\* by the interval
SpawnCycle(discovered) ==
    /\ cycles + triggers < MaxRuns
    /\ cycles' = cycles + 1
    /\ now' = now + 1
    /\ Spawn(discovered)

StartCycle == SpawnCycle(DiscoverAll(fs))

TaskDone(t, how) == [t EXCEPT !.pc = "done", !.outcome = how]

\* variant of the row the task saves in which a new repository is stamped as
\* synced at creation
RowToSaveStamped(found, t, time) ==
    IF found.id # 0
    THEN [found EXCEPT !.last_synced_at = time, !.updated_at = time]
    ELSE [NewRepository(t.name, t.path, time) EXCEPT !.last_synced_at = time]

\* the row the task saves: the row found with its sync time set, or a new row
RowToSave(found, t, time) ==
    IF found.id # 0
    THEN [found EXCEPT !.last_synced_at = time, !.updated_at = time]
    ELSE NewRepository(t.name, t.path, time)

\* step 1 of the task: find_by_path(..).await?, then save(..).await? of the
\* existing or the new row; either store call may fail
TaskRow(i) ==
    /\ tasks[i].pc = "row"
    /\ \E findFails \in BOOLEAN, saveFails \in BOOLEAN :
          IF findFails \/ saveFails
          THEN /\ tasks' = [tasks EXCEPT ![i] = TaskDone(@, "err")]
               /\ UNCHANGED repositories
          ELSE LET found == FindByPath(repositories, tasks[i].path)
                   saved == SaveRepository(repositories, RowToSave(found, tasks[i], now))
               IN  /\ repositories' = saved
                   /\ tasks' = [tasks EXCEPT ![i] =
                                  [@ EXCEPT !.pc = "sync",
                                            !.rid = FindByPath(saved, tasks[i].path).id]]
    /\ UNCHANGED <<odb, refs, branches, commits, now, scanOrder, limitCfg, state,
                   stats, moves, cycles, triggers, fs, last>>

\* the tips a fetch of path p may leave origin/main at: where it is when the
\* fetch failed; when it is done, there or at a descendant the remote has
TipsAfterFetch(p, how) ==
    LET cur == refs[p][RefName(<<"origin", "main">>)]
    IN  IF how = "ok" THEN {cur} \cup {t \in FetchTips : cur \in Reachable(odb, t)}
        ELSE {cur}

\* Git2Client::fetch_repository: the refs once origin/main of path p is at tip
FetchEffect(p, tip) == [refs EXCEPT ![p][RefName(<<"origin", "main">>)] = tip]

\* variant of TaskSync in which a failed or timed-out fetch ends the task
TaskSyncHardFetch(i) ==
    /\ tasks[i].pc = "sync"
    /\ \E how \in {"ok", "err", "timeout"}, f \in SingleFaults :
       \E tip \in TipsAfterFetch(tasks[i].path, how) :
          LET fetched == FetchEffect(tasks[i].path, tip)
              r == IndexRepository(branches, commits, tasks[i].rid, odb,
                                   fetched[tasks[i].path], limitCfg, scanOrder, now, f)
          IN  IF how = "ok"
              THEN /\ refs' = fetched
                   /\ branches' = r.branches
                   /\ commits' = r.rows
                   /\ tasks' = [tasks EXCEPT ![i] =
                                  TaskDone([@ EXCEPT !.fetch = how, !.index = r.status],
                                           r.status)]
              ELSE /\ tasks' = [tasks EXCEPT ![i] = TaskDone([@ EXCEPT !.fetch = how], "err")]
                   /\ UNCHANGED <<refs, branches, commits>>
    /\ UNCHANGED <<odb, repositories, now, scanOrder, limitCfg, state, stats,
                   moves, cycles, triggers, fs, last>>

\* steps 2 and 3 of the task: timeout(fetch_timeout, fetch_repository(..)) is
\* done, failed or timed out and the task goes on in each case; then
\* worker.index_repository(repository_id, path).await?; Ok(true)
TaskSync(i) ==
    /\ tasks[i].pc = "sync"
    /\ \E how \in {"ok", "err", "timeout"}, f \in SingleFaults :
       \E tip \in TipsAfterFetch(tasks[i].path, how) :
          LET fetched == FetchEffect(tasks[i].path, tip)
              r == IndexRepository(branches, commits, tasks[i].rid, odb,
                                   fetched[tasks[i].path], limitCfg, scanOrder, now, f)
          IN  /\ refs' = fetched
              /\ branches' = r.branches
              /\ commits' = r.rows
              /\ tasks' = [tasks EXCEPT ![i] =
                             TaskDone([@ EXCEPT !.fetch = how, !.index = r.status],
                                      r.status)]
    /\ UNCHANGED <<odb, repositories, now, scanOrder, limitCfg, state, stats,
                   moves, cycles, triggers, fs, last>>

\* a spawned task runs on, whatever the other tasks do
TaskStep(i) == TaskRow(i) \/ TaskSync(i)

\* variant of Aggregate in which a panicked task is not counted
RECURSIVE AggregateDropPanic(_, _, _)
AggregateDropPanic(ts, i, acc) ==
    IF i > Len(ts) THEN acc
    ELSE AggregateDropPanic(ts, i + 1,
            IF ts[i].outcome = "ok"
            THEN [acc EXCEPT !.repos_synced = @ + 1]
            ELSE IF ts[i].outcome = "panic" THEN acc
            ELSE [acc EXCEPT !.repos_failed = @ + 1])

\* variant of Aggregate in which every task joined after a failed one is
\* counted as failed
RECURSIVE AggregateFailRest(_, _, _)
AggregateFailRest(ts, i, acc) ==
    IF i > Len(ts) THEN acc
    ELSE AggregateFailRest(ts, i + 1,
            IF ts[i].outcome = "ok" /\ acc.repos_failed = 0
            THEN [acc EXCEPT !.repos_synced = @ + 1]
            ELSE [acc EXCEPT !.repos_failed = @ + 1])

\* variant of the join loop in which a pass that lost a branch counts as a
\* failed repository
RECURSIVE AggregateBranchAware(_, _, _)
AggregateBranchAware(ts, i, acc) ==
    IF i > Len(ts) THEN acc
    ELSE AggregateBranchAware(ts, i + 1,
            IF /\ ts[i].outcome = "ok"
               /\ ("result" \in DOMAIN ts[i]) => ts[i].result.branches_failed = 0
            THEN [acc EXCEPT !.repos_synced = @ + 1]
            ELSE [acc EXCEPT !.repos_failed = @ + 1])

\* the join loop of run_index_cycle: Ok(Ok(true)) is synced, Ok(Err) and a
\* panicked task are failed
RECURSIVE Aggregate(_, _, _)
Aggregate(ts, i, acc) ==
    IF i > Len(ts) THEN acc
    ELSE Aggregate(ts, i + 1,
            IF ts[i].outcome = "ok"
            THEN [acc EXCEPT !.repos_synced = @ + 1]
            ELSE [acc EXCEPT !.repos_failed = @ + 1])

\* variant of FinishCycle in which the join loop unwraps the JoinHandle's
\* result: a panicked task takes the scheduler loop down with it
FinishCycleUnwrap ==
    /\ state = "Running"
    /\ \A i \in 1..Len(tasks) : tasks[i].pc = "done" /\ tasks[i].outcome # "panic"
    /\ state' = "Idle"
    /\ stats' = Aggregate(tasks, 1, stats)
    /\ last' = [op |-> "cycle", stats |-> Aggregate(tasks, 1, stats), tasks |-> tasks]
    /\ tasks' = <<>>
    /\ UNCHANGED <<odb, refs, repositories, branches, commits, now, scanOrder,
                   limitCfg, moves, cycles, triggers, fs>>

\* every task has been awaited: the cycle returns its statistics
FinishCycle ==
    /\ state = "Running"
    /\ \A i \in 1..Len(tasks) : tasks[i].pc = "done"
    /\ state' = "Idle"
    /\ stats' = Aggregate(tasks, 1, stats)
    /\ last' = [op |-> "cycle", stats |-> Aggregate(tasks, 1, stats), tasks |-> tasks]
    /\ tasks' = <<>>
    /\ UNCHANGED <<odb, refs, repositories, branches, commits, now, scanOrder,
                   limitCfg, moves, cycles, triggers, fs>>

\* variant of TriggerSynced in which the result of the index pass is ignored
TriggerSyncedAnyIndex(indexed, status, syncFails) == indexed /\ ~syncFails

\* worker.index_repository(..).await?; update_sync_time(..).await?: the sync time
\* is written when the index pass returned Ok and the update itself succeeds
TriggerSynced(indexed, status, syncFails) == indexed /\ status = "ok" /\ ~syncFails

\* IndexerScheduler::trigger_index(repository_id), run to its end
TriggerIndex(id) ==
    /\ cycles + triggers < MaxRuns
    /\ triggers' = triggers + 1
    /\ \E findFails \in BOOLEAN, how \in {"ok", "err"}, f \in SingleFaults,
          syncFails \in BOOLEAN :
          LET repo == FindById(repositories, id)
              found == ~findFails /\ repo.id # 0
              indexed == found /\ how = "ok"
          IN  \E tip \in IF indexed THEN TipsAfterFetch(repo.path, how) ELSE {NoOid} :
                LET fetched == IF indexed THEN FetchEffect(repo.path, tip) ELSE refs
                    r == IF indexed
                         THEN IndexRepository(branches, commits, id, odb, fetched[repo.path],
                                              limitCfg, scanOrder, now, f)
                         ELSE [status |-> "none", branches |-> branches, rows |-> commits]
                    synced == TriggerSynced(indexed, r.status, syncFails)
                IN  /\ refs' = fetched
                    /\ branches' = r.branches
                    /\ commits' = r.rows
                    /\ repositories' = IF synced THEN UpdateSyncTime(repositories, id, now)
                                       ELSE repositories
                    /\ last' = [op |-> "trigger_index", id |-> id,
                                run |-> triggers + 1,
                                found |-> found,
                                fetch |-> IF found THEN how ELSE "none",
                                index |-> r.status,
                                sync |-> IF indexed /\ r.status = "ok"
                                         THEN (IF syncFails THEN "err" ELSE "ok")
                                         ELSE "none",
                                result |-> IF synced THEN "ok"
                                           ELSE IF r.status = "panic" THEN "panic"
                                           ELSE "err"]
    /\ UNCHANGED <<odb, now, scanOrder, limitCfg, state, tasks, stats, moves,
                   cycles, fs>>

\* a collaborator that changed a stored repository calls
\* worker.index_repository(repo.id, &repo.path) to refresh the store
CollaboratorIndex(id) ==
    /\ cycles + triggers < MaxRuns
    /\ FindById(repositories, id).id # 0
    /\ triggers' = triggers + 1
    /\ \E f \in SingleFaults :
          LET r == IndexRepository(branches, commits, id, odb,
                                   refs[FindById(repositories, id).path],
                                   limitCfg, scanOrder, now, f)
          IN  /\ branches' = r.branches
              /\ commits' = r.rows
              /\ last' = [op |-> "index_pass", id |-> id, status |-> r.status]
    /\ UNCHANGED <<odb, refs, repositories, now, scanOrder, limitCfg, state, tasks,
                   stats, moves, cycles, fs>>

RepoIds == 1..Len(ScanEntries)

Next ==
    \/ StartCycle
    \/ \E i \in 1..Len(tasks) : TaskStep(i)
    \/ FinishCycle
    \/ \E id \in RepoIds : TriggerIndex(id)
    \/ \E id \in RepoIds : CollaboratorIndex(id)

\* the object database of the fleet: the history with author time = commit time
FleetHistory == IndexHistory(IndexCTimes)

FleetRefs ==
    [p \in Paths |->
        [r \in RemoteRefs |->
            IF r = RefName(<<"origin", "main">>) THEN (IF p = "p1" THEN 4 ELSE 1)
            ELSE IF r = RefName(<<"upstream", "dev">>) /\ p = "p1" THEN 1
            ELSE NoOid]]

\* what the scan paths are on disk
Disks == {[e \in Range(ScanEntries) |-> WorkTree],
          [e \in Range(ScanEntries) |-> IF e = "p1" THEN WorkTree ELSE PlainDir]}

\* the repositories table when the scheduler starts: empty, or with the first
\* repository registered and never synced
Registered == {<<>>, <<RepoA>>}

Init ==
    /\ odb = FleetHistory
    /\ refs = FleetRefs
    /\ repositories \in Registered
    /\ branches = {}
    /\ commits = <<>>
    /\ SchedulerIdle
    /\ fs \in Disks
    /\ now = 0
    /\ scanOrder = "rowid"
    /\ limitCfg = DefaultMaxCommitsPerBranch
    /\ last = [op |-> "none"]

Spec == Init /\ [][Next]_vars

-----------------------------------------------------------------------------
(* The branch diff query of the commit store *)

MaxRows == 2        \* rows of an enumerated commits table

\* the limit the branch comparison handler passes
DiffLimit == 1000

\* variant of Unmatched that joins on the summary alone
UnmatchedBySummary(rows, rid, old, new) ==
    {i \in 1..Len(rows) :
        /\ rows[i].repository_id = rid
        /\ rows[i].branch = old
        /\ ~\E j \in 1..Len(rows) : /\ rows[j].repository_id = rows[i].repository_id
                                     /\ rows[j].branch = new
                                     /\ rows[j].summary = rows[i].summary}

\* variant of Unmatched that takes two rows for the same commit only when
\* they have the same oid
UnmatchedByOid(rows, rid, old, new) ==
    {i \in 1..Len(rows) :
        /\ rows[i].repository_id = rid
        /\ rows[i].branch = old
        /\ ~\E j \in 1..Len(rows) : /\ rows[j].repository_id = rows[i].repository_id
                                     /\ rows[j].branch = new
                                     /\ rows[j].oid = rows[i].oid}

\* FROM commits c LEFT JOIN commits new ON (same repository, branch = new, same
\* author_name, same summary) WHERE c.repository_id = rid AND c.branch = old
\* AND new.id IS NULL: the rows of old with no partner, by rowid
Unmatched(rows, rid, old, new) ==
    {i \in 1..Len(rows) :
        /\ rows[i].repository_id = rid
        /\ rows[i].branch = old
        /\ ~\E j \in 1..Len(rows) : /\ rows[j].repository_id = rows[i].repository_id
                                     /\ rows[j].branch = new
                                     /\ rows[j].author_name = rows[i].author_name
                                     /\ rows[j].summary = rows[i].summary}

\* ORDER BY c.committer_time DESC; rows of one committer_time come out in the
\* order the scan meets them
RECURSIVE OrderByCommitterTime(_, _, _)
OrderByCommitterTime(rows, S, order) ==
    IF S = {} THEN <<>>
    ELSE LET i == CHOOSE i \in S : \A j \in S :
                      \/ rows[j].committer_time < rows[i].committer_time
                      \/ /\ rows[j].committer_time = rows[i].committer_time
                         /\ (IF order = "time_index" THEN j <= i ELSE i <= j)
         IN  <<rows[i]>> \o OrderByCommitterTime(rows, S \ {i}, order)

\* LIMIT ?
Limit(seq, limit) ==
    IF limit < 0 \/ limit >= Len(seq) THEN seq ELSE SubSeq(seq, 1, limit)

\* SqliteCommitRepository::find_diff_commits
FindDiffCommits(rows, rid, old, new, limit, order) ==
    Limit(OrderByCommitterTime(rows, Unmatched(rows, rid, old, new), order), limit)

Main == <<"origin", "main">>
Feature == <<"origin", "feature">>

\* where a stored row lives: the compared branches of repository 1, another
\* branch of it, and the compared-against branch name in another repository
RowPlaces == {<<1, Feature>>, <<1, Main>>, <<1, <<"origin", "dev">> >>, <<2, Main>>}

\* the author_name and summary of a stored row
RowTexts == {<<"ann", "fix">>, <<"ann", "add">>, <<"bob", "fix">>}

RowTimes == {1, 2}

RowKinds == RowPlaces \X RowTexts \X RowTimes

\* the commits tables of n rows, row i holding commit i
DiffStores(n) ==
    {[i \in 1..n |->
        [repository_id |-> f[i][1][1], oid |-> i, branch |-> f[i][1][2],
         author_name |-> f[i][2][1], author_time |-> f[i][3],
         committer_time |-> f[i][3], summary |-> f[i][2][2],
         parent_oids |-> <<>>, created_at |-> 0]] : f \in [1..n -> RowKinds]}

InitDiff ==
    /\ odb = <<>>
    /\ refs = [p \in Paths |-> NoRefs]
    /\ repositories = <<>>
    /\ branches = {}
    /\ commits \in UNION {DiffStores(n) : n \in 0..MaxRows}
    /\ SchedulerIdle
    /\ fs = NoDisk
    /\ now = 0
    /\ scanOrder \in {"rowid", "time_index"}
    /\ limitCfg = DefaultMaxCommitsPerBranch
    /\ last = [op |-> "none"]

\* the handler's query: commit_store.find_diff_commits(repo.id, old, new, limit)
CallFindDiffCommits ==
    /\ \E limit \in (0..MaxLimit) \cup {DiffLimit} :
          last' = [op |-> "find_diff_commits", rid |-> 1, old |-> Feature, new |-> Main,
                   limit |-> limit,
                   result |-> FindDiffCommits(commits, 1, Feature, Main, limit, scanOrder)]
    /\ UNCHANGED <<odb, refs, repositories, branches, commits, now, scanOrder, limitCfg,
                   state, tasks, stats, moves, cycles, triggers, fs>>

NextDiff == CallFindDiffCommits

SpecDiff == InitDiff /\ [][NextDiff]_vars

-----------------------------------------------------------------------------
(* The end-to-end scenario: origin/main with five commits and a merge,
   origin/feature two commits ahead of it, one of them a cherry-pick *)

\* the merge commit of origin/main and the two commits origin/feature adds
ScenarioOids == [merge |-> 6, first |-> 7, second |-> 8]

MergeOid == ScenarioOids.merge

FirstAhead == ScenarioOids.first

SecondAhead == ScenarioOids.second

\* parents of commits 1..6 and the tip of origin/main: a side branch merged at
\* the tip (from the root, or from the second commit), or merged midway
ScenarioShapes ==
    {[parents |-> << <<>>, <<1>>, <<2>>, <<1>>, <<4>>, <<3, 5>> >>, tip |-> 6],
     [parents |-> << <<>>, <<1>>, <<2>>, <<3>>, <<2>>, <<4, 5>> >>, tip |-> 6],
     [parents |-> << <<>>, <<1>>, <<1>>, <<6>>, <<4>>, <<2, 3>> >>, tip |-> 5]}

\* commit times of commits 1..8: in the order of the history, or skewed clocks
ScenarioTimes(shape) ==
    LET inOrder == IF shape.tip = 6 THEN <<1, 2, 3, 4, 5, 6, 7, 8>>
                   ELSE <<1, 2, 3, 5, 6, 4, 7, 8>>
    IN  {inOrder, [o \in 1..8 |-> 9 - inOrder[o]]}

\* the history in which commit `pick` of origin/feature is a cherry-pick of
\* commit k of origin/main: same author and summary, its own oid
ScenarioHistory(shape, times, k, pick) ==
    [o \in 1..8 |->
        IF o <= 6
        THEN Object(shape.parents[o], times[o], times[o],
                    IF o = MergeOid THEN "merger" ELSE "ann",
                    IF o = MergeOid THEN <<"merge">> ELSE <<"change", o>>)
        ELSE Object(<<IF o = FirstAhead THEN shape.tip ELSE FirstAhead>>, times[o],
                    IF o = pick THEN times[k] ELSE times[o],
                    "ann",
                    IF o = pick THEN <<"change", k>> ELSE <<"feature work">>)]

ScenarioRefs(shape) ==
    [p \in Paths |->
        [r \in RemoteRefs |->
            IF p = "p1" /\ r = RefName(Main) THEN shape.tip
            ELSE IF p = "p1" /\ r = RefName(Feature) THEN SecondAhead
            ELSE NoOid]]

InitScenario ==
    /\ \E shape \in ScenarioShapes, k \in 1..5, pick \in {FirstAhead, SecondAhead} :
       \E times \in ScenarioTimes(shape) :
          /\ odb = ScenarioHistory(shape, times, k, pick)
          /\ refs = ScenarioRefs(shape)
    /\ repositories = <<RepoA>>
    /\ branches = {}
    /\ commits = <<>>
    /\ SchedulerIdle
    /\ fs = NoDisk
    /\ now = 0
    /\ scanOrder \in ScanOrders
    /\ limitCfg = DefaultMaxCommitsPerBranch
    /\ last = [op |-> "none"]

\* the one indexing pass over the fresh repository
ScenarioPass ==
    /\ triggers = 0
    /\ triggers' = 1
    /\ LET r == IndexRepository(branches, commits, 1, odb, refs["p1"], limitCfg,
                                scanOrder, now, NoFault)
       IN  /\ branches' = r.branches
           /\ commits' = r.rows
           /\ last' = [op |-> "index_repository", rid |-> 1, status |-> r.status,
                       result |-> r.result, clean |-> TRUE, second |-> FALSE,
                       changed |-> (r.rows # commits)]
    /\ UNCHANGED <<odb, refs, repositories, now, scanOrder, limitCfg, state, tasks,
                   stats, moves, cycles, fs>>

\* the diff query of origin/feature against origin/main
ScenarioDiff ==
    /\ last' = [op |-> "find_diff_commits", rid |-> 1, old |-> Feature, new |-> Main,
                limit |-> DiffLimit,
                result |-> FindDiffCommits(commits, 1, Feature, Main, DiffLimit, scanOrder)]
    /\ UNCHANGED <<odb, refs, repositories, branches, commits, now, scanOrder, limitCfg,
                   state, tasks, stats, moves, cycles, triggers, fs>>

NextScenario == ScenarioPass \/ ScenarioDiff

SpecScenario == InitScenario /\ [][NextScenario]_vars

-----------------------------------------------------------------------------
(* Claims *)

\* C1: a second index_repository pass, run right after a complete pass with no
\* change to the repository's refs and commits in between, leaves the stored
\* Commit rows and the stored Branch keys as the first pass left them.
C1_SecondPassChangesNothing ==
    (last.op = "index_repository" /\ last.second) => ~last.changed

C1_Witness ==
    /\ last.op = "index_repository"
    /\ last.second
    /\ last.clean
    /\ Len(commits) >= 4
    /\ Cardinality(branches) >= 2

\* C3: no stored Commit row has two or more parents.
C3_NoMergeStored ==
    \A i \in 1..Len(commits) : Len(commits[i].parent_oids) < 2

C3_Witness ==
    /\ \E i \in 1..Len(commits) : commits[i].oid = 5
    /\ \E i \in 1..Len(commits) : commits[i].oid = 3

ReturnedOids(r) == {r.commits[i].oid : i \in 1..Len(r.commits)}

\* what a full backfill at tip c stores: every non-merge commit c reaches
StoredUpTo(g, c) == {o \in Reachable(g, c) : ~IsMerge(g, o)}

\* C2: with a branch indexed up to commit C (its tip then), a get_commits call
\* from a later tip with since_oid = C returns neither C nor any stored
\* ancestor of C.
C2_CursoringExcludesStored ==
    (/\ last.op = "get_commits"
     /\ last.since # NoOid
     /\ ~IsMerge(odb, last.since)
     /\ last.since \in Reachable(odb, last.tip))
    => ReturnedOids(last.result) \cap StoredUpTo(odb, last.since) = {}

CountOf(ts, S) == Cardinality({i \in 1..Len(ts) : ts[i].outcome \in S})

\* C4: when a cycle ends, repos_synced + repos_failed = repos_discovered, the
\* discovered repositories are the tasks of the cycle, and every task is counted
\* once: as synced when it returned Ok(true), as failed otherwise.
C4_CycleAccounting ==
    last.op = "cycle" =>
        /\ last.stats.repos_synced + last.stats.repos_failed = last.stats.repos_discovered
        /\ last.stats.repos_discovered = Len(last.tasks)
        /\ last.stats.repos_discovered = Len(DiscoverAll(fs))
        /\ last.stats.repos_synced = CountOf(last.tasks, {"ok"})
        /\ last.stats.repos_failed = CountOf(last.tasks, {"err", "panic"})
        /\ \A i \in 1..Len(last.tasks) : last.tasks[i].outcome \in {"ok", "err", "panic"}

\* a cycle of two repositories with a panicked task and a fetch that failed
C4_Witness ==
    /\ last.op = "cycle"
    /\ Len(last.tasks) = 2
    /\ \E i, j \in 1..2 : /\ last.tasks[i].outcome = "panic"
                            /\ last.tasks[j].outcome = "ok"
                            /\ last.tasks[j].fetch \in {"err", "timeout"}

\* C5: a step of one task, an error or a panic included, leaves the record of
\* every other task of the cycle as it was and never touches a finished task;
\* the cycle ends with every task finished and classified, and a task that
\* returned Ok(true) adds nothing to the failed count, which is the number of
\* the other tasks that erred or panicked.
C5_FaultIsolation ==
    /\ [](last.op = "cycle" =>
            \A i \in 1..Len(last.tasks) :
                /\ last.tasks[i].pc = "done"
                /\ last.tasks[i].outcome = "ok" =>
                      last.stats.repos_failed =
                          Cardinality({j \in 1..Len(last.tasks) \ {i} :
                                          last.tasks[j].outcome \in {"err", "panic"}}))
    /\ [][(state = "Running" /\ state' = "Running") =>
            \A j \in 1..Len(tasks) :
                tasks'[j] # tasks[j] =>
                    /\ tasks[j].pc # "done"
                    /\ \A k \in 1..Len(tasks) : k # j => tasks'[k] = tasks[k]]_vars

\* the first task of a cycle erred in its row step and the second, which ran
\* its index pass to the end, is the one repository counted as synced
C5_Witness ==
    /\ last.op = "cycle"
    /\ Len(last.tasks) = 2
    /\ last.tasks[1].outcome = "err"
    /\ last.tasks[1].rid = 0
    /\ last.tasks[2].outcome = "ok"
    /\ last.tasks[2].index = "ok"
    /\ last.stats.repos_synced = 1
    /\ last.stats.repos_failed = 1

\* C6: a task whose repository row was found or created runs the index pass,
\* whether the fetch was done, failed or timed out; the task fails only when
\* the row step or the index pass failed, never because of the fetch.
C6_SoftFetchFailure ==
    /\ \A i \in 1..Len(tasks) :
          tasks[i].pc = "done" =>
              /\ tasks[i].rid # 0 => tasks[i].index # "none"
              /\ tasks[i].outcome # "ok" =>
                     (tasks[i].rid = 0 \/ tasks[i].index \in {"err", "panic"})
    /\ last.op = "cycle" =>
          last.stats.repos_failed =
              Cardinality({i \in 1..Len(last.tasks) :
                              \/ last.tasks[i].rid = 0
                              \/ last.tasks[i].index \in {"err", "panic"}})

\* a cycle ended with no failure although a fetch timed out and another failed
C6_Witness ==
    /\ last.op = "cycle"
    /\ last.stats.repos_failed = 0
    /\ \E i, j \in 1..Len(last.tasks) : /\ last.tasks[i].fetch = "timeout"
                                          /\ last.tasks[i].index = "ok"
                                          /\ last.tasks[j].fetch = "err"
                                          /\ last.tasks[j].index = "ok"

\* the stored sync time of repository id
SyncTimeOf(repos, id) == FindById(repos, id).last_synced_at

\* C7: trigger_index(id) returns an error when the id is unknown, when the
\* fetch fails or when the index pass returns an error, and then nothing later
\* runs: a failed lookup or fetch writes no branch or commit row, and any
\* failure leaves every last_synced_at as it was; the sync time of the
\* repository is written only when fetch and index pass both succeeded.
C7_TriggerFailsLoudly ==
    [][(last'.op = "trigger_index" /\ triggers' # triggers) =>
          /\ FindById(repositories, last'.id).id = 0 =>
                (last'.result = "err" /\ ~last'.found)
          /\ ~last'.found =>
                (last'.result = "err" /\ last'.fetch = "none"
                 /\ UNCHANGED <<refs, branches, commits, repositories>>)
          /\ last'.fetch = "err" =>
                (last'.result = "err" /\ last'.index = "none"
                 /\ UNCHANGED <<refs, branches, commits, repositories>>)
          /\ last'.index = "err" =>
                (last'.result = "err" /\ last'.sync = "none"
                 /\ UNCHANGED repositories)
          /\ last'.result # "ok" => UNCHANGED repositories
          /\ last'.result = "ok" =>
                (/\ last'.fetch = "ok" /\ last'.index = "ok"
                 /\ repositories' = UpdateSyncTime(repositories, last'.id, now))
          /\ repositories' # repositories =>
                (last'.fetch = "ok" /\ last'.index = "ok")
      ]_vars

\* a trigger on a stored repository failed in its index pass after a fetch
\* that moved origin/main, and the repository was never synced
C7_Witness ==
    /\ last.op = "trigger_index"
    /\ last.found
    /\ last.fetch = "ok"
    /\ last.index = "err"
    /\ last.result = "err"
    /\ SyncTimeOf(repositories, last.id) = NoTime
    /\ refs # FleetRefs

\* the rows of branch b of repository rid
RowsOf(rows, rid, b) ==
    {i \in 1..Len(rows) : rows[i].repository_id = rid /\ rows[i].branch = b}

\* row i has a partner on branch b: a row of the same repository with the same
\* author_name and the same summary
HasPartner(rows, i, b) ==
    \E j \in RowsOf(rows, rows[i].repository_id, b) :
        /\ rows[j].author_name = rows[i].author_name
        /\ rows[j].summary = rows[i].summary

InResult(res, row) == \E k \in 1..Len(res) : res[k] = row

AfterOnePass == triggers = 1 /\ Len(odb) = SecondAhead /\ state = "Idle" /\ cycles = 0

OidsOf(rows, S) == {rows[i].oid : i \in S}

\* C9 as stated: the one pass leaves 7 Commit rows, 5 of origin/main and 2 of
\* origin/feature, none of them the merge commit.
C9_SevenRows ==
    AfterOnePass =>
        /\ Len(commits) = 7
        /\ Cardinality(RowsOf(commits, 1, Main)) = 5
        /\ Cardinality(RowsOf(commits, 1, Feature)) = 2
        /\ \A i \in 1..Len(commits) : commits[i].oid # MergeOid

\* C9, amended: the one pass leaves 12 Commit rows: the 5 non-merge commits of
\* origin/main under origin/main, and under origin/feature the same 5 commits
\* again with its 2 own commits; the merge commit is in no row.
C9_TwelveRows ==
    AfterOnePass =>
        /\ Len(commits) = 12
        /\ OidsOf(commits, RowsOf(commits, 1, Main)) = 1..5
        /\ Cardinality(RowsOf(commits, 1, Main)) = 5
        /\ OidsOf(commits, RowsOf(commits, 1, Feature)) = (1..5) \cup {FirstAhead, SecondAhead}
        /\ Cardinality(RowsOf(commits, 1, Feature)) = 7
        /\ \A i \in 1..Len(commits) :
              commits[i].oid # MergeOid /\ Len(commits[i].parent_oids) < 2

\* the pass has run over a history whose merge commit is the tip of origin/main
C9_Witness ==
    /\ AfterOnePass
    /\ last.op = "index_repository"
    /\ last.status = "ok"
    /\ last.result.branches_indexed = 2
    /\ refs["p1"][RefName(Main)] = MergeOid

\* the commit of origin/feature that is the cherry-pick: it has the author and
\* summary of a commit of origin/main
IsCherryPick(g, o) ==
    \E k \in 1..5 : g[k].author = g[o].author /\ g[k].summary = g[o].summary

-----------------------------------------------------------------------------
(* C11: the unique key of the commit store *)

-----------------------------------------------------------------------------
(* C12: commits are never deleted *)

-----------------------------------------------------------------------------
(* Specification SpecStore: the commits table under bulk_insert and save *)

\* the longest batch handed to bulk_insert
MaxBatch == 2

\* a Commit entity for one of two oids on origin/main of repository 1: the
\* author and the timestamps in two versions, the summary and message in two
CommitEntity(oid, meta, text) ==
    [repository_id |-> 1, oid |-> oid, branch |-> <<"origin", "main">>,
     author_name |-> IF meta = 1 THEN "a" ELSE "b",
     author_time |-> meta, committer_time |-> meta,
     summary |-> IF text = 1 THEN "s" ELSE "t",
     message |-> IF text = 1 THEN "m" ELSE "n",
     parent_oids |-> <<>>, created_at |-> meta]

CommitEntities ==
    {CommitEntity(o, v, t) : o \in {1, 2}, v \in {1, 2}, t \in {1, 2}}

Batches == UNION {[1..n -> CommitEntities] : n \in 1..MaxBatch}

HasKey(rows, c) == \E i \in 1..Len(rows) : CommitKey(rows[i]) = CommitKey(c)

\* variant of SaveCommit whose conflict clause overwrites the whole row
SaveCommitReplacing(rows, c) ==
    IF HasKey(rows, c)
    THEN [i \in 1..Len(rows) |-> IF CommitKey(rows[i]) = CommitKey(c) THEN c ELSE rows[i]]
    ELSE Append(rows, c)

\* SqliteCommitRepository::save: INSERT ... ON CONFLICT(repository_id, oid, branch)
\* DO UPDATE SET summary = excluded.summary, message = excluded.message
SaveCommit(rows, c) ==
    IF HasKey(rows, c)
    THEN [i \in 1..Len(rows) |->
            IF CommitKey(rows[i]) = CommitKey(c)
            THEN [rows[i] EXCEPT !.summary = c.summary, !.message = c.message]
            ELSE rows[i]]
    ELSE Append(rows, c)

InitStore ==
    /\ odb = <<>>
    /\ refs = NoRefs
    /\ EmptyStore
    /\ SchedulerIdle
    /\ fs = NoDisk
    /\ now = 0
    /\ scanOrder = "rowid"
    /\ limitCfg = DefaultMaxCommitsPerBranch
    /\ last = [op |-> "none", conflict |-> FALSE]

\* bulk_insert(batch): the transaction commits, or a statement fails and the
\* dropped transaction is rolled back
CallBulkInsert ==
    /\ \E batch \in Batches, fails \in BOOLEAN :
          /\ commits' = IF fails THEN commits ELSE BulkInsert(commits, batch)
          /\ last' = [op |-> "bulk_insert", ok |-> ~fails,
                      conflict |-> ~fails /\ \E i \in 1..Len(batch) : HasKey(commits, batch[i]),
                      prev |-> [op |-> last.op, conflict |-> last.conflict]]
    /\ UNCHANGED <<odb, refs, repositories, branches, now, scanOrder, limitCfg,
                   state, tasks, stats, moves, cycles, triggers, fs>>

\* save(commit): the statement runs or fails
CallSave ==
    /\ \E c \in CommitEntities, fails \in BOOLEAN :
          /\ commits' = IF fails THEN commits ELSE SaveCommit(commits, c)
          /\ last' = [op |-> "save", ok |-> ~fails, commit |-> c,
                      conflict |-> ~fails /\ HasKey(commits, c),
                      prev |-> [op |-> last.op, conflict |-> last.conflict]]
    /\ UNCHANGED <<odb, refs, repositories, branches, now, scanOrder, limitCfg,
                   state, tasks, stats, moves, cycles, triggers, fs>>

NextStore ==
    \/ CallBulkInsert
    \/ CallSave

SpecStore == InitStore /\ [][NextStore]_vars

-----------------------------------------------------------------------------
(* C13: stored commits are immutable but for the text fields *)

\* C13: a stored row keeps its place, its (repository_id, oid, branch), its
\* author, its author and committer time, its parents and its created_at
\* through every bulk_insert and save; bulk_insert leaves the whole row as it
\* was, so only save can change a row, and only its summary and message
C13_Immutable ==
    [][\A i \in 1..Len(commits) :
          /\ i <= Len(commits')
          /\ CommitKey(commits'[i]) = CommitKey(commits[i])
          /\ commits'[i].author_name = commits[i].author_name
          /\ commits'[i].author_time = commits[i].author_time
          /\ commits'[i].committer_time = commits[i].committer_time
          /\ commits'[i].parent_oids = commits[i].parent_oids
          /\ commits'[i].created_at = commits[i].created_at
          /\ last'.op = "bulk_insert" => commits'[i] = commits[i]]_vars

\* a bulk_insert met a stored key, then a save of an entity with other
\* timestamps met a stored key: the row has the entity's text, not its times
C13_Witness ==
    /\ last.op = "save"
    /\ last.conflict
    /\ last.prev.op = "bulk_insert"
    /\ last.prev.conflict
    /\ \E i \in 1..Len(commits) :
          /\ CommitKey(commits[i]) = CommitKey(last.commit)
          /\ commits[i].summary = last.commit.summary
          /\ commits[i].message = last.commit.message
          /\ commits[i].author_time # last.commit.author_time
          /\ commits[i].created_at # last.commit.created_at

-----------------------------------------------------------------------------
(* Specification SpecOverlap: a cycle over scan entries that resolve to one *)
(* repository, the steps of each task interleaved                           *)

\* config.projects with the scan path p1 and a symbolic link to it
OverlapEntries == <<"p1", "l1">>

StartOverlapCycle == SpawnCycle(DiscoverEntries(OverlapEntries, fs, 1))

\* step 1a of the task: find_by_path(..).await?
TaskFind(i) ==
    /\ tasks[i].pc = "row"
    /\ \E findFails \in BOOLEAN :
          tasks' = [tasks EXCEPT ![i] =
                      IF findFails THEN TaskDone(@, "err")
                      ELSE [found |-> FindByPath(repositories, tasks[i].path)]
                           @@ [@ EXCEPT !.pc = "save"]]
    /\ UNCHANGED <<odb, refs, repositories, branches, commits, now, scanOrder,
                   limitCfg, state, stats, moves, cycles, triggers, fs, last>>

\* step 1b of the task: save(..).await? of the row found, its sync time set,
\* or of a new row; the id is the one the statement returns
TaskSave(i) ==
    /\ tasks[i].pc = "save"
    /\ \E saveFails \in BOOLEAN :
          IF saveFails
          THEN /\ tasks' = [tasks EXCEPT ![i] = TaskDone(@, "err")]
               /\ UNCHANGED repositories
          ELSE LET saved == SaveRepository(repositories,
                                           RowToSave(tasks[i].found, tasks[i], now))
               IN  /\ repositories' = saved
                   /\ tasks' = [tasks EXCEPT ![i] =
                                  [@ EXCEPT !.pc = "sync",
                                            !.rid = FindByPath(saved, tasks[i].path).id]]
    /\ UNCHANGED <<odb, refs, branches, commits, now, scanOrder, limitCfg, state,
                   stats, moves, cycles, triggers, fs, last>>

NextOverlap ==
    \/ StartOverlapCycle
    \/ \E i \in 1..Len(tasks) : TaskFind(i)
    \/ \E i \in 1..Len(tasks) : TaskSave(i)
    \/ \E i \in 1..Len(tasks) : TaskSync(i)
    \/ FinishCycle

InitOverlap ==
    /\ odb = FleetHistory
    /\ refs = FleetRefs
    /\ repositories \in Registered
    /\ branches = {}
    /\ commits = <<>>
    /\ SchedulerIdle
    /\ fs \in {[e \in Range(OverlapEntries) |-> WorkTree],
               [e \in Range(OverlapEntries) |-> IF e = "p1" THEN WorkTree ELSE Missing]}
    /\ now = 0
    /\ scanOrder = "rowid"
    /\ limitCfg = DefaultMaxCommitsPerBranch
    /\ last = [op |-> "none"]

SpecOverlap == InitOverlap /\ [][NextOverlap]_vars

-----------------------------------------------------------------------------
(* C14: one repository row per path *)

\* C14: the repositories table never holds two rows with the same path, and
\* the id a task got from its save is the id of the one row of its path, also
\* when two tasks of a cycle process the same path and both found no row
C14_OneRowPerPath ==
    /\ \A i, j \in 1..Len(repositories) :
          repositories[i].path = repositories[j].path => i = j
    /\ \A i \in 1..Len(tasks) :
          tasks[i].rid # 0 => FindByPath(repositories, tasks[i].path).id = tasks[i].rid

\* two tasks of one cycle for the same path both found no row and both saved
C14_Witness ==
    \E i, j \in 1..Len(tasks) :
        /\ i # j
        /\ tasks[i].path = tasks[j].path
        /\ tasks[i].rid # 0 /\ tasks[j].rid # 0
        /\ tasks[i].found.id = 0 /\ tasks[j].found.id = 0

-----------------------------------------------------------------------------
(* C15: the branches table is a last-seen map *)

BranchRows(bset, rid, name) == {b \in bset : BranchKey(b) = <<rid, name>>}

\* C15: the branches table never holds two rows for one (repository_id, name);
\* an index pass leaves, for every branch it lists, exactly one row whose
\* target_oid is the tip it listed, and leaves the rows of every name it does
\* not list (a branch deleted upstream) as they were; nothing else writes the
\* table, so each row shows the tip of the latest pass that listed its name
C15_LastSeenMap ==
    /\ [](\A a, b \in branches : BranchKey(a) = BranchKey(b) => a = b)
    /\ [][IF last'.op = "index_repository"
          THEN \A i \in 1..Len(BranchNames) :
                  LET name == BranchNames[i]
                      tip == refs["p1"][RefName(name)]
                  IN  IF tip # NoOid
                      THEN \E b \in branches' :
                              /\ BranchRows(branches', 1, name) = {b}
                              /\ b.target_oid = tip
                      ELSE BranchRows(branches', 1, name) = BranchRows(branches, 1, name)
          ELSE branches' = branches]_vars

\* origin/main was listed by a pass, then deleted upstream, and a later pass
\* ran: its row still shows the tip last listed, beside the row of a branch
\* that is still there
C15_Witness ==
    /\ last.op = "index_repository"
    /\ refs["p1"][RefName(<<"origin", "main">>)] = NoOid
    /\ \E b \in branches : b.name = <<"origin", "main">> /\ b.target_oid # NoOid
    /\ \E b \in branches : b.name = <<"upstream", "dev">>
                           /\ b.target_oid = refs["p1"][RefName(<<"upstream", "dev">>)]

-----------------------------------------------------------------------------
(* Specification SpecFault: index passes over one repository with two       *)
(* origin/ branches, in which store and git calls fail                      *)

\* what fails in one pass: list_branches, save_many, or for each origin/
\* branch one of the calls of index_branch
PassFaults ==
    {[NoFault EXCEPT !.list = TRUE], [NoFault EXCEPT !.save = TRUE]}
    \cup {[NoFault EXCEPT !.br = b] : b \in [OriginNames -> BranchFaults]}

\* the fleet's working copies, p1 with a second origin/ branch
FaultRefs == [FleetRefs EXCEPT !["p1"][RefName(<<"origin", "feature">>)] = 3]

InitFault ==
    /\ odb = FleetHistory
    /\ refs = FaultRefs
    /\ repositories = <<RepoA>>
    /\ branches = {}
    /\ commits = <<>>
    /\ SchedulerIdle
    /\ fs = NoDisk
    /\ now = 0
    /\ scanOrder = "rowid"
    /\ limitCfg = DefaultMaxCommitsPerBranch
    /\ last = [op |-> "none"]

\* a caller runs IndexWorker::index_repository(rid, path) to its end or to the
\* point where it panics
FaultyPass(rid, p) ==
    \E f \in PassFaults :
        LET r == IndexRepository(branches, commits, rid, odb, refs[p], limitCfg,
                                 scanOrder, now, f)
        IN  /\ branches' = r.branches
            /\ commits' = r.rows
            /\ last' = [op |-> "faulty_pass", rid |-> rid, path |-> p, faults |-> f,
                        status |-> r.status, result |-> r.result]
            /\ UNCHANGED <<odb, refs, repositories, now, scanOrder, limitCfg,
                           state, tasks, stats, moves, cycles, triggers, fs>>

\* Git2Client::fetch_repository brings new commits of origin/main
Fetch(p) ==
    /\ \E tip \in TipsAfterFetch(p, "ok") \ {refs[p][RefName(<<"origin", "main">>)]} :
          refs' = FetchEffect(p, tip)
    /\ last' = [op |-> "fetch"]
    /\ UNCHANGED <<odb, repositories, branches, commits, now, scanOrder, limitCfg,
                   state, tasks, stats, moves, cycles, triggers, fs>>

NextFault ==
    \/ Fetch("p1")
    \/ FaultyPass(1, "p1")

SpecFault == InitFault /\ [][NextFault]_vars

-----------------------------------------------------------------------------
(* C16: a VCS error of one branch does not stop the pass *)

\* the origin/ branches list_branches returns for path p
ListedOrigin(p) == {n \in OriginNames : refs[p][RefName(n)] # NoOid}

\* the rows stored for branch `name` of repository rid
RowsOfBranch(rows, rid, name) ==
    {rows[i] : i \in {k \in 1..Len(rows) :
                        rows[k].repository_id = rid /\ rows[k].branch = name}}

\* C16: in a pass in which get_commits fails for some origin/ branches and
\* nothing else fails, index_repository returns Ok, branches_failed counts the
\* failed branches, branches_indexed counts every other listed origin/ branch,
\* and each of those, before or after the failed one, has the rows its own
\* index_branch stores
C16_BranchFaultIsolation ==
    [][(/\ last'.op = "faulty_pass"
        /\ ~last'.faults.list /\ ~last'.faults.save
        /\ \A n \in OriginNames : last'.faults.br[n] \in {"none", "vcs"})
       => LET listed == ListedOrigin("p1")
              failed == {n \in listed : last'.faults.br[n] = "vcs"}
          IN  /\ last'.status = "ok"
              /\ last'.result.branches_failed = Cardinality(failed)
              /\ last'.result.branches_indexed = Cardinality(listed \ failed)
              /\ \A n \in listed \ failed :
                    RowsOfBranch(commits', 1, n) =
                    RowsOfBranch(IndexBranch(commits, 1, odb, refs["p1"], n, limitCfg,
                                             scanOrder, now, "none").rows, 1, n)
              /\ \A n \in failed :
                    RowsOfBranch(commits', 1, n) = RowsOfBranch(commits, 1, n)]_vars

\* get_commits failed for origin/feature, the first branch of the pass, and
\* origin/main, the next one, was indexed all the same
C16_Witness ==
    /\ last.op = "faulty_pass"
    /\ last.faults.br[<<"origin", "feature">>] = "vcs"
    /\ last.faults.br[<<"origin", "main">>] = "none"
    /\ ~last.faults.list /\ ~last.faults.save
    /\ last.status = "ok"
    /\ last.result.branches_failed = 1
    /\ last.result.branches_indexed = 1
    /\ RowsOfBranch(commits, 1, <<"origin", "feature">>) = {}
    /\ RowsOfBranch(commits, 1, <<"origin", "main">>) # {}

-----------------------------------------------------------------------------
(* C17: a store error of bulk_insert and the rest of the pass *)

\* the listed origin/ branches of p1 whose bulk_insert is reached and fails
InsertFailed(f) ==
    {n \in ListedOrigin("p1") :
        /\ f.br[n] = "insert"
        /\ IndexBranch(commits, 1, odb, refs["p1"], n, limitCfg, scanOrder, now,
                       "none").count > 0}

\* the place of a branch in the order list_branches returns them
PlaceOf(n) == CHOOSE i \in 1..Len(BranchNames) : BranchNames[i] = n

\* C17: in a pass in which bulk_insert fails for a branch and nothing else
\* fails, index_repository returns the error and no branch listed after the
\* failed one gets rows
C17_StoreErrorAbortsPass ==
    [][(/\ last'.op = "faulty_pass"
        /\ ~last'.faults.list /\ ~last'.faults.save
        /\ \A n \in OriginNames : last'.faults.br[n] \in {"none", "insert"}
        /\ InsertFailed(last'.faults) # {})
       => /\ last'.status = "err"
          /\ \A n \in InsertFailed(last'.faults), m \in ListedOrigin("p1") :
                PlaceOf(m) > PlaceOf(n)
                => RowsOfBranch(commits', 1, m) = RowsOfBranch(commits, 1, m)]_vars

-----------------------------------------------------------------------------
(* Specification SpecLoop: the loop of IndexerScheduler::start with its     *)
(* interval timer                                                           *)

\* the intervals that elapse in a run
MaxTime == 1

\* the clock passes the next multiple of the interval, whatever the scheduler
\* is doing
Elapse ==
    /\ now < MaxTime
    /\ now' = now + 1
    /\ UNCHANGED <<odb, refs, repositories, branches, commits, scanOrder, limitCfg,
                   state, tasks, stats, moves, cycles, triggers, fs, last>>

\* tokio's interval completes its first tick at once and tick k + 1 once k
\* intervals have elapsed; a tick missed while a cycle ran is due at once
TickDue == now >= cycles

\* interval.tick().await returns and run_index_cycle starts
LoopStart ==
    /\ TickDue
    /\ cycles' = cycles + 1
    /\ now' = now
    /\ Spawn(DiscoverAll(fs))

NextLoop ==
    \/ Elapse
    \/ LoopStart
    \/ \E i \in 1..Len(tasks) : TaskStep(i)
    \/ FinishCycle

\* the scheduler starts on an empty database; both scan paths hold
\* repositories, the second one without a remote-tracking branch yet
InitLoop ==
    /\ odb = FleetHistory
    /\ refs = [FleetRefs EXCEPT !["p2"] = NoRefs["p2"]]
    /\ EmptyStore
    /\ SchedulerIdle
    /\ fs = [e \in Range(ScanEntries) |-> WorkTree]
    /\ now = 0
    /\ scanOrder = "rowid"
    /\ limitCfg = DefaultMaxCommitsPerBranch
    /\ last = [op |-> "none"]

SpecLoop == InitLoop /\ [][NextLoop]_vars

-----------------------------------------------------------------------------
(* C18: one cycle at a time *)

\* C18: while the scheduler is Idle no task it spawned is live; the live tasks
\* are never more than one cycle discovers; and a cycle starts only from Idle
\* with no task of the previous cycle left, however many ticks fell due while
\* that cycle ran
C18_OneCycleAtATime ==
    /\ [](/\ state = "Idle" => tasks = <<>>
          /\ Len(tasks) <= Len(DiscoverAll(fs))
          /\ state = "Running" => Len(tasks) = stats.repos_discovered)
    /\ [][cycles' # cycles
          => /\ state = "Idle" /\ tasks = <<>>
             /\ state' = "Running"
             /\ cycles' = cycles + 1]_vars

\* the first cycle is still running, one of its tasks done and one live, when
\* the interval has elapsed and the next tick is due
C18_Witness ==
    /\ state = "Running"
    /\ cycles = 1
    /\ TickDue
    /\ Len(tasks) = 2
    /\ \E i \in 1..Len(tasks) : tasks[i].pc # "done"
    /\ \E i \in 1..Len(tasks) : tasks[i].pc = "done"

-----------------------------------------------------------------------------
(* Specification SpecLoopFair: the loop with every await returning *)

\* the tokio runtime polls the loop and every spawned task: a tick that is due
\* is delivered, each await of a task returns (stores and git reads
\* terminate, the fetch within its timeout), and the join loop gets every
\* finished task. TaskSync(i) is enabled exactly when SyncReady(i) holds, so
\* its weak fairness is written out as: infinitely often not ready, or
\* infinitely often taken
\* task i is at its fetch and index step: TaskSync(i) can be taken
SyncReady(i) == i <= Len(tasks) /\ tasks[i].pc = "sync"

LoopFairness ==
    /\ WF_vars(LoopStart)
    /\ WF_vars(FinishCycle)
    /\ \A i \in 1..Len(ScanEntries) : WF_vars(i <= Len(tasks) /\ TaskRow(i))
    /\ \A i \in 1..Len(ScanEntries) :
          []<>(~SyncReady(i)) \/ []<><<i <= Len(tasks) /\ TaskSync(i)>>_vars

SpecLoopFair == SpecLoop /\ LoopFairness

-----------------------------------------------------------------------------
(* C19: the scheduler never stops on failure *)

\* C19: the scheduler is always Idle or Running; every started cycle returns
\* to Idle, whatever its tasks do (fail, panic, or succeed); and whenever the
\* scheduler is Idle with a tick due, after any cycle outcome, the next cycle
\* starts
C19_NeverStops ==
    /\ [](state \in {"Idle", "Running"})
    /\ (state = "Running") ~> (state = "Idle")
    /\ (state = "Idle" /\ TickDue) ~> (state = "Running")

\* a cycle in which one task failed and the other panicked has returned to
\* Idle, and the next tick is due
C19_Witness ==
    /\ state = "Idle"
    /\ last.op = "cycle"
    /\ last.stats.repos_failed = 2
    /\ \E i \in 1..Len(last.tasks) : last.tasks[i].outcome = "panic"
    /\ \E i \in 1..Len(last.tasks) : last.tasks[i].outcome = "err"
    /\ TickDue

-----------------------------------------------------------------------------
(* C20: exclusive use of a working copy *)

\* C20: a cycle has no two tasks for the same canonical path, so no two tasks
\* are at their fetch and index step on the same working copy together
C20_ExclusiveWorkingCopy ==
    \A i, j \in 1..Len(tasks) :
        i # j => /\ tasks[i].path # tasks[j].path
                 /\ ~(/\ tasks[i].pc = "sync" /\ tasks[j].pc = "sync"
                      /\ tasks[i].path = tasks[j].path)

-----------------------------------------------------------------------------
(* Specification SpecSteps: one cycle whose tasks run index_repository     *)
(* store call by store call, so that the calls of the tasks interleave     *)

\* what a task holds while it is inside worker.index_repository: the branch
\* list, the place in it, the cursor and the batch of the branch in hand,
\* and the IndexResult so far
PassFields ==
    [list |-> <<>>, bi |-> 0, since |-> NoOid, batch |-> <<>>, result |-> NoResult]

\* the place of the next remote-tracking branch of origin at or after k;
\* Len(list) + 1 when there is none
RECURSIVE NextOrigin(_, _)
NextOrigin(list, k) ==
    IF k > Len(list) THEN k
    ELSE IF list[k].name[1] = "origin" THEN k
    ELSE NextOrigin(list, k + 1)

\* the loop of index_repository goes to the next branch, or the pass returns
\* Ok(result)
ToBranch(t, k) ==
    IF NextOrigin(t.list, k) > Len(t.list)
    THEN TaskDone([t EXCEPT !.bi = NextOrigin(t.list, k), !.index = "ok"], "ok")
    ELSE [t EXCEPT !.bi = NextOrigin(t.list, k), !.pc = "read"]

\* the match on index_branch's result: Ok(count) adds to commits_indexed and
\* branches_indexed, Err adds to branches_failed; then the next branch
BranchOk(t, count) ==
    ToBranch([t EXCEPT !.result.commits_indexed = @ + count,
                       !.result.branches_indexed = @ + 1,
                       !.batch = <<>>], t.bi + 1)

BranchErr(t) ==
    ToBranch([t EXCEPT !.result.branches_failed = @ + 1, !.batch = <<>>], t.bi + 1)

\* step 2 of the task: the fetch under its timeout returns; the remote has
\* nothing new, so the refs stay whatever the fetch returns, and the task
\* enters worker.index_repository
StepFetch(i) ==
    /\ tasks[i].pc = "sync"
    /\ \E how \in {"ok", "err", "timeout"} :
          tasks' = [tasks EXCEPT ![i] =
                      PassFields @@ [@ EXCEPT !.pc = "list", !.fetch = how]]
    /\ UNCHANGED <<odb, refs, repositories, branches, commits, now, scanOrder,
                   limitCfg, state, stats, moves, cycles, triggers, fs, last>>

\* variant of StepBranches in which the branch list is not written before
\* the branch loop
StepBranchesUnsaved(i) ==
    /\ tasks[i].pc = "list"
    /\ tasks' = [tasks EXCEPT ![i] =
                   ToBranch([@ EXCEPT !.list = ListBranches(refs[tasks[i].path])], 1)]
    /\ UNCHANGED <<odb, refs, repositories, branches, commits, now, scanOrder,
                   limitCfg, state, stats, moves, cycles, triggers, fs, last>>

\* index_repository up to the branch loop: list_branches(path).await?, then
\* save_many(&branch_entities).await? when the list is not empty
StepBranches(i) ==
    /\ tasks[i].pc = "list"
    /\ \E fails \in BOOLEAN :
          LET list == ListBranches(refs[tasks[i].path])
              entities == [k \in 1..Len(list) |->
                             BranchEntity(tasks[i].rid, list[k], now)]
          IN  IF fails
              THEN /\ tasks' = [tasks EXCEPT ![i] =
                                  TaskDone([@ EXCEPT !.index = "err"], "err")]
                   /\ UNCHANGED branches
              ELSE /\ branches' = IF entities = <<>> THEN branches
                                  ELSE SaveMany(branches, entities)
                   /\ tasks' = [tasks EXCEPT ![i] = ToBranch([@ EXCEPT !.list = list], 1)]
    /\ UNCHANGED <<odb, refs, repositories, commits, now, scanOrder, limitCfg,
                   state, stats, moves, cycles, triggers, fs, last>>

\* index_branch up to the insert: get_latest_commit(..).await?, then
\* get_commits(path, ref, max_commits_per_branch, since).await?; an empty
\* list is Ok(0)
StepRead(i) ==
    /\ tasks[i].pc = "read"
    /\ \E fails \in BOOLEAN :
          LET t == tasks[i]
              name == t.list[t.bi].name
              since == GetLatestCommit(commits, t.rid, name, scanOrder)
              got == GetCommits(odb, refs[t.path][RefName(name)], limitCfg, since)
              batch == [k \in 1..Len(got.commits) |->
                          DomainCommit(t.rid, name, got.commits[k], now)]
          IN  tasks' = [tasks EXCEPT ![i] =
                          IF fails \/ ~got.ok THEN BranchErr(t)
                          ELSE IF batch = <<>> THEN BranchOk([t EXCEPT !.since = since], 0)
                          ELSE [t EXCEPT !.since = since, !.batch = batch,
                                         !.pc = "write"]]
    /\ UNCHANGED <<odb, refs, repositories, branches, commits, now, scanOrder,
                   limitCfg, state, stats, moves, cycles, triggers, fs, last>>

\* the end of index_branch: bulk_insert(&batch).await, Ok(count) or Err
StepWrite(i) ==
    /\ tasks[i].pc = "write"
    /\ \E fails \in BOOLEAN :
          IF fails
          THEN /\ tasks' = [tasks EXCEPT ![i] = BranchErr(@)]
               /\ UNCHANGED commits
          ELSE /\ commits' = BulkInsert(commits, tasks[i].batch)
               /\ tasks' = [tasks EXCEPT ![i] = BranchOk(@, Len(tasks[i].batch))]
    /\ UNCHANGED <<odb, refs, repositories, branches, now, scanOrder, limitCfg,
                   state, stats, moves, cycles, triggers, fs, last>>

\* index_branch's mapping of a non-empty batch to domain commits:
\* DateTime::from_timestamp(..).unwrap() panics on a timestamp out of range,
\* the task ends in a JoinError
StepPanic(i) ==
    /\ tasks[i].pc = "read"
    /\ LET t == tasks[i]
           name == t.list[t.bi].name
           since == GetLatestCommit(commits, t.rid, name, scanOrder)
           got == GetCommits(odb, refs[t.path][RefName(name)], limitCfg, since)
       IN  /\ got.ok /\ got.commits # <<>>
           /\ tasks' = [tasks EXCEPT ![i] = TaskDone(@, "panic")]
    /\ UNCHANGED <<odb, refs, repositories, branches, commits, now, scanOrder,
                   limitCfg, state, stats, moves, cycles, triggers, fs, last>>

NextSteps ==
    \/ StartCycle
    \/ \E i \in 1..Len(tasks) : TaskFind(i)
    \/ \E i \in 1..Len(tasks) : TaskSave(i)
    \/ \E i \in 1..Len(tasks) : StepFetch(i)
    \/ \E i \in 1..Len(tasks) : StepBranches(i)
    \/ \E i \in 1..Len(tasks) : StepRead(i)
    \/ \E i \in 1..Len(tasks) : StepWrite(i)
    \/ \E i \in 1..Len(tasks) : StepPanic(i)
    \/ FinishCycle

InitSteps ==
    /\ odb = FleetHistory
    /\ refs = FaultRefs
    /\ repositories \in Registered
    /\ branches = {}
    /\ commits = <<>>
    /\ SchedulerIdle
    /\ fs = [e \in Range(ScanEntries) |-> WorkTree]
    /\ now = 0
    /\ scanOrder = "rowid"
    /\ limitCfg = DefaultMaxCommitsPerBranch
    /\ last = [op |-> "none"]

SpecSteps == InitSteps /\ [][NextSteps]_vars

\* the stores after the tasks of `paths` have run whole, one after another,
\* from the stores db
RECURSIVE SerialRun(_, _, _)
SerialRun(paths, k, db) ==
    IF k > Len(paths) THEN db
    ELSE LET p == paths[k]
             saved == SaveRepository(db.repositories,
                                     RowToSave(FindByPath(db.repositories, p),
                                               [name |-> p, path |-> p], now))
             r == IndexRepository(db.branches, db.commits, FindByPath(saved, p).id,
                                  odb, refs[p], limitCfg, scanOrder, now, NoFault)
         IN  SerialRun(paths, k + 1,
                       [repositories |-> saved, branches |-> r.branches,
                        commits |-> r.rows])

\* the stores the first cycle started from: a row created before the cycle
\* is the registered one
StoresBefore ==
    [repositories |-> IF \E i \in 1..Len(repositories) : repositories[i].created_at < now
                      THEN <<RepoA>> ELSE <<>>,
     branches |-> {}, commits |-> <<>>]

\* the first cycle is over, every task synced and no branch of it failed
FirstCycleClean ==
    /\ last.op = "cycle"
    /\ cycles = 1
    /\ last.stats.repos_synced = Len(ScanEntries)
    /\ \A i \in 1..Len(last.tasks) : last.tasks[i].result.branches_failed = 0

SameStores(db) ==
    /\ repositories = db.repositories
    /\ branches = db.branches
    /\ Range(commits) = Range(db.commits)

\* the paths of the repositories table, in the order of their ids
PathsById == [i \in 1..Len(repositories) |-> repositories[i].path]

-----------------------------------------------------------------------------
(* Specification SpecReentrant: index_repository passes of two callers over *)
(* one repository, run store call by store call                             *)

\* who runs a pass: a task of the scheduler's cycle, and the push handler's
\* re-index
PassCallers == {"task", "push"}

NewPass(who, rid, p) ==
    PassFields @@ [name |-> who, path |-> p, pc |-> "list", rid |-> rid,
                   fetch |-> "none", index |-> "none", outcome |-> "running"]

NoPassRunning == \A i \in 1..Len(tasks) : tasks[i].pc = "done"

\* the passes once a caller has entered index_repository: a new round when
\* no pass is running, else beside the running ones
WithPass(ts, t) ==
    IF \A i \in 1..Len(ts) : ts[i].pc = "done" THEN <<t>> ELSE Append(ts, t)

\* a caller enters worker.index_repository(rid, path), once in a round of
\* passes.  When no pass is running, the stores the round starts from are
\* noted
StartPass(who, rid, p) ==
    /\ NoPassRunning \/ \A i \in 1..Len(tasks) : tasks[i].name # who
    /\ tasks' = WithPass(tasks, NewPass(who, rid, p))
    /\ last' = IF NoPassRunning
               THEN [op |-> "start_pass", branches |-> branches, commits |-> commits]
               ELSE last
    /\ UNCHANGED <<odb, refs, repositories, branches, commits, now, scanOrder,
                   limitCfg, state, stats, moves, cycles, triggers, fs>>

\* the repository changes between rounds of passes, never during one
QuietFetch(p) == NoPassRunning /\ Fetch(p)

\* origin/main of the first repository is at the second commit and its
\* origin/feature at the third; origin/main of the other repository is at the
\* newest commit
ReentrantRefs ==
    [FaultRefs EXCEPT !["p1"][RefName(<<"origin", "main">>)] = 2,
                      !["p2"][RefName(<<"origin", "main">>)] = Len(IndexParents)]

\* the second repository as one pass over it has left it in the stores
OtherIndexed(g) ==
    IndexRepository({}, <<>>, 2, g, ReentrantRefs["p2"], DefaultMaxCommitsPerBranch,
                    "rowid", 0, NoFault)

\* the repository is registered and not yet indexed; the stores hold the
\* rows of the other repository
InitReentrant ==
    /\ odb \in {IndexHistory(at) : at \in IndexATimes}
    /\ refs = ReentrantRefs
    /\ repositories = <<RepoA, [id |-> 2] @@ NewRepository("p2", "p2", 0)>>
    /\ branches = OtherIndexed(odb).branches
    /\ commits = OtherIndexed(odb).rows
    /\ SchedulerIdle
    /\ fs = NoDisk
    /\ now = 0
    /\ scanOrder \in ScanOrders
    /\ limitCfg \in {2, DefaultMaxCommitsPerBranch}
    /\ last = [op |-> "none"]

NextReentrant ==
    \/ QuietFetch("p1")
    \/ \E who \in PassCallers : StartPass(who, 1, "p1")
    \/ \E i \in 1..Len(tasks) : StepBranches(i)
    \/ \E i \in 1..Len(tasks) : StepRead(i)
    \/ \E i \in 1..Len(tasks) : StepWrite(i)

SpecReentrant == InitReentrant /\ [][NextReentrant]_vars

\* a round of passes is over and no call of it failed
RoundClean ==
    /\ last.op = "start_pass"
    /\ NoPassRunning
    /\ \A i \in 1..Len(tasks) :
          tasks[i].outcome = "ok" /\ tasks[i].result.branches_failed = 0

\* index_repository run alone from the stores the round started from
PassAlone ==
    IndexRepository(last.branches, last.commits, 1, odb, refs["p1"], limitCfg,
                    scanOrder, now, NoFault)

\* C22: when passes of index_repository for one repository run concurrently
\* over an unchanged repository and no call fails, every interleaving of
\* their store calls ends with the Commit and Branch rows one pass run alone
\* ends with: as many commit rows, the same ones, and the same branch rows
C22_SameAsOnePass ==
    RoundClean =>
        /\ Range(commits) = Range(PassAlone.rows)
        /\ Len(commits) = Len(PassAlone.rows)
        /\ branches = PassAlone.branches

\* two passes ran in one round, and each got a batch from get_commits and
\* inserted it: both read the cursor before either wrote
C22_Witness ==
    /\ RoundClean
    /\ Len(tasks) = 2
    /\ \A i \in 1..Len(tasks) : tasks[i].result.commits_indexed > 0
    /\ \E j \in 1..Len(last.commits) : last.commits[j].repository_id = 1

-----------------------------------------------------------------------------
\* the task is inside index_repository (it has the locals of the pass)
InPass(t) == "result" \in DOMAIN t

\* every branch of the list the pass got from list_branches has its row, with
\* the listed target
ListPersisted(bset, t) ==
    \A k \in 1..Len(t.list) :
       \E b \in bset : /\ b.repository_id = t.rid
                       /\ b.name = t.list[k].name
                       /\ b.target_oid = t.list[k].target_oid

\* C23: within one index_repository pass every Branch row write is completed
\* before the first Commit row write: a pass that is about to insert or has
\* inserted commits has its whole branch list in the store, and every step
\* that changes the commit table is the insert of a pass whose branch list
\* was stored before that step
C23_BranchesBeforeCommits ==
    /\ [](\A i \in 1..Len(tasks) :
            (InPass(tasks[i]) /\ (tasks[i].pc = "write"
                                  \/ tasks[i].result.commits_indexed > 0))
            => ListPersisted(branches, tasks[i]))
    /\ [][commits' # commits =>
            \E i \in 1..Len(tasks) :
               /\ tasks[i].pc = "write"
               /\ tasks'[i] # tasks[i]
               /\ Len(tasks[i].list) > 0
               /\ ListPersisted(branches, tasks[i])]_vars

\* a pass over three listed branches has inserted the commits of one branch
\* and is at the next one
C23_Witness ==
    \E i \in 1..Len(tasks) :
       /\ InPass(tasks[i])
       /\ tasks[i].pc = "read"
       /\ tasks[i].result.commits_indexed > 0
       /\ Len(tasks[i].list) = 3
       /\ \E j \in 1..Len(commits) : commits[j].repository_id = tasks[i].rid

-----------------------------------------------------------------------------
(* Specification SpecAtomic: bulk_insert calls that fail at any statement   *)

\* where a bulk_insert fails: nowhere (0), at the statement for batch[k] (k),
\* or at tx.commit() (Len(batch) + 1)
FailPoints(batch) == 0..(Len(batch) + 1)

\* what each INSERT of the batch has to store when its key is free: the
\* first entity of the batch for each key
FirstByKey(batch) ==
    {batch[i] : i \in {k \in 1..Len(batch) :
                         \A j \in 1..(k - 1) : CommitKey(batch[j]) # CommitKey(batch[k])}}

\* variant of BulkInsertTx without the transaction: the statements that ran
\* before the failure stay in the table
BulkInsertAutocommit(rows, batch, failAt) ==
    IF failAt = 0 THEN BulkInsert(rows, batch)
    ELSE BulkInsert(rows, SubSeq(batch, 1, failAt - 1))

\* bulk_insert inside pool.begin() .. tx.commit(): when a statement or the
\* commit fails, `?` returns and the dropped transaction is rolled back
BulkInsertTx(rows, batch, failAt) ==
    IF failAt = 0 THEN BulkInsert(rows, batch) ELSE rows

\* bulk_insert(batch), with the place of the failure: the outcome, whether a
\* statement had run before the failure, and what the batch had to store are
\* noted
CallBulkInsertAt ==
    /\ \E batch \in Batches :
       \E failAt \in FailPoints(batch) :
          /\ commits' = BulkInsertTx(commits, batch, failAt)
          /\ last' = [op |-> "bulk_insert", ok |-> failAt = 0, ran |-> failAt > 1,
                      firsts |-> FirstByKey(batch)]
    /\ UNCHANGED <<odb, refs, repositories, branches, now, scanOrder, limitCfg,
                   state, tasks, stats, moves, cycles, triggers, fs>>

SpecAtomic == InitStore /\ [][CallBulkInsertAt]_vars

\* C24: a bulk_insert batch is all-or-nothing: when the store fails at any
\* statement of the batch or at the commit, the commit table is what it was
\* before the call; when the call succeeds, every commit of the batch whose
\* key was free is stored as the batch gave it (the first of the batch for a
\* key given twice), every key of the batch is present, and nothing else is
\* added
C24_AtomicBulkInsert ==
    [][last'.op = "bulk_insert" =>
          IF last'.ok
          THEN /\ \A c \in last'.firsts :
                     IF HasKey(commits, c)
                     THEN HasKey(commits', c)
                     ELSE \E j \in 1..Len(commits') : commits'[j] = c
               /\ \A j \in 1..Len(commits') :
                     (\E i \in 1..Len(commits) : commits[i] = commits'[j])
                     \/ commits'[j] \in last'.firsts
          ELSE commits' = commits]_vars

\* a statement of a batch or the commit failed after an earlier statement
\* had run, and the batch had a row for a free key: that row is not in the
\* table
C24_Witness ==
    /\ last.op = "bulk_insert"
    /\ ~last.ok
    /\ last.ran
    /\ \E c \in last.firsts : ~HasKey(commits, c)

-----------------------------------------------------------------------------
\* the part of the walk from the tip down to since, since left out; the whole
\* walk when since is absent or not on it
WalkBefore(walk, since) ==
    IF \E i \in 1..Len(walk) : walk[i] = since
    THEN SubSeq(walk, 1, (CHOOSE i \in 1..Len(walk) : walk[i] = since) - 1)
    ELSE walk

\* the non-merge commits between the tip and since (or the end of history)
NonMergeBefore(g, tip, since) ==
    LET w == WalkBefore(Revwalk(g, tip), since)
    IN  {i \in 1..Len(w) : ~IsMerge(g, w[i])}

\* C25: get_commits never returns more than limit records, and whenever at
\* least limit non-merge commits lie between the ref's tip and since_oid (or
\* the end of history) it returns exactly limit records: skipped merge
\* commits do not use up the limit
C25_LimitCountsRecords ==
    last.op = "get_commits" =>
        /\ Len(last.result.commits) <= last.limit
        /\ (Cardinality(NonMergeBefore(odb, last.tip, last.since)) >= last.limit
            => Len(last.result.commits) = last.limit)

-----------------------------------------------------------------------------
(* Specification SpecDiscover: discover_all over every kind of scan path    *)

\* config.projects with three (base, scan_path) pairs
DiscoverScan == <<"p1", "p2", "p3">>

Trees == {Missing, PlainDir, WorkTree, BareRepo, NestedRepo}

InitDiscover ==
    /\ odb = FleetHistory
    /\ refs = FleetRefs
    /\ repositories \in Registered
    /\ branches = {}
    /\ commits = <<>>
    /\ SchedulerIdle
    /\ fs \in [Range(DiscoverScan) -> Trees]
    /\ now = 0
    /\ scanOrder = "rowid"
    /\ limitCfg = DefaultMaxCommitsPerBranch
    /\ last = [op |-> "none"]

\* discover_all().await: always Ok(all_repos)
CallDiscoverAll ==
    /\ last' = [op |-> "discover_all", result |-> DiscoverEntries(DiscoverScan, fs, 1)]
    /\ UNCHANGED <<odb, refs, repositories, branches, commits, now, scanOrder,
                   limitCfg, state, tasks, stats, moves, cycles, triggers, fs>>

SpecDiscover == InitDiscover /\ [][CallDiscoverAll]_vars

\* the places of the result that scan path e gave
YieldsOf(res, e) ==
    {k \in 1..Len(res) : res[k].name = e /\ res[k].path = Canonical(e)}

\* C26: a (base, scan_path) pair yields a DiscoveredRepo, once, exactly when
\* the resolved path exists and that very directory holds a .git entry or a
\* packed-refs file; a scan path whose only .git lies one level deeper yields
\* nothing
C26_NonRecursive ==
    last.op = "discover_all" =>
        \A e \in Range(DiscoverScan) :
           /\ Cardinality(YieldsOf(last.result, e)) =
                 (IF /\ <<>> \in fs[e]
                     /\ (<<".git">> \in fs[e] \/ <<"packed-refs">> \in fs[e])
                  THEN 1 ELSE 0)
           /\ (fs[e] = NestedRepo => YieldsOf(last.result, e) = {})

\* a working copy and a bare repository were discovered, and a scan path
\* with a repository one level down gave nothing
C26_Witness ==
    /\ last.op = "discover_all"
    /\ fs["p1"] = WorkTree
    /\ fs["p2"] = NestedRepo
    /\ fs["p3"] = BareRepo
    /\ Len(last.result) = 2

\* the scan path is a repository
GoodEntry(e) == fs[e] \in {WorkTree, BareRepo}

\* C27: discover_all never fails for a bad entry and never changes state: it
\* returns the list of the scan paths that are repositories, in the order of
\* the configuration, so an entry that is missing or not a repository is
\* skipped and the entries after it are still examined; no store and no scan
\* path is written
C27_DiscoveryTotalAndReadOnly ==
    [][last'.op = "discover_all" =>
          /\ [k \in 1..Len(last'.result) |-> last'.result[k].name]
                = SelectSeq(DiscoverScan, GoodEntry)
          /\ repositories' = repositories
          /\ branches' = branches
          /\ commits' = commits
          /\ fs' = fs]_vars

\* the first scan path is missing, the second is no repository, the third is
\* one and is in the result; the repositories table has a row
C27_Witness ==
    /\ last.op = "discover_all"
    /\ fs["p1"] = Missing
    /\ fs["p2"] = PlainDir
    /\ fs["p3"] = WorkTree
    /\ Len(last.result) = 1
    /\ last.result[1].name = "p3"
    /\ repositories # <<>>

-----------------------------------------------------------------------------
(* Specification SpecPathOption: the scheduler started with -p <PATH>       *)

\* Config::from_args_and_file with git_base_path: one project whose base is
\* the path and whose only scan path is ".", so the one entry joins to the
\* path itself
PathOptionEntries == <<"p1">>

StartPathCycle == SpawnCycle(DiscoverEntries(PathOptionEntries, fs, 1))

NextPathOption ==
    \/ StartPathCycle
    \/ \E i \in 1..Len(tasks) : TaskFind(i)
    \/ \E i \in 1..Len(tasks) : TaskSave(i)
    \/ \E i \in 1..Len(tasks) : TaskSync(i)
    \/ FinishCycle

\* the path is a repository, a directory that holds one a level down, or a
\* directory that holds none
InitPathOption ==
    /\ odb = FleetHistory
    /\ refs = FleetRefs
    /\ repositories \in Registered
    /\ branches = {}
    /\ commits = <<>>
    /\ SchedulerIdle
    /\ fs \in {[e \in Range(PathOptionEntries) |-> t] :
                  t \in {WorkTree, BareRepo, NestedRepo, PlainDir}}
    /\ now = 0
    /\ scanOrder = "rowid"
    /\ limitCfg = DefaultMaxCommitsPerBranch
    /\ last = [op |-> "none"]

SpecPathOption == InitPathOption /\ [][NextPathOption]_vars

\* the repositories one level below the scan path
ContainedRepos(tree) ==
    {rel[1] : rel \in {r \in tree : Len(r) = 2 /\ r[2] \in {".git", "packed-refs"}}}

\* C28: when -p names a directory that is not itself a repository but holds
\* repositories as subdirectories, the next cycle discovers those
\* repositories (and so gives each a task that registers and indexes it)
C28_ContainedReposDiscovered ==
    (/\ last.op = "cycle"
     /\ PathExists(fs[PathOptionEntries[1]], <<>>)
     /\ ~IsGitRepo(fs[PathOptionEntries[1]]))
    => /\ last.stats.repos_discovered >=
             Cardinality(ContainedRepos(fs[PathOptionEntries[1]]))
       /\ Cardinality({i \in 1..Len(repositories) : repositories[i].created_at = now})
             >= Cardinality(ContainedRepos(fs[PathOptionEntries[1]]))

-----------------------------------------------------------------------------
\* the rows stored for the branch the pass is at
RowsAtBranch(rows, t) ==
    {j \in 1..Len(rows) : /\ rows[j].repository_id = t.rid
                          /\ rows[j].branch = t.list[t.bi].name}

\* C29: when a pass has read the cursor of a branch and called get_commits,
\* the since_oid it passed is the oid of a stored commit of that
\* (repository_id, branch) with the greatest author_time among the rows of
\* that (repository_id, branch), and it is absent exactly when no row is
\* stored for that pair; the rows of other branches and of other repositories
\* have no part in it
C29_CursorDerivation ==
    [][\A i \in 1..Len(tasks) :
          (/\ tasks[i].pc = "read"
           /\ i <= Len(tasks')
           /\ tasks'[i] # tasks[i]
           /\ tasks'[i].result.branches_failed = tasks[i].result.branches_failed)
          => LET mine == RowsAtBranch(commits, tasks[i])
             IN  IF mine = {} THEN tasks'[i].since = NoOid
                 ELSE /\ tasks'[i].since # NoOid
                      /\ \E j \in mine :
                            /\ commits[j].oid = tasks'[i].since
                            /\ \A k \in mine :
                                  commits[k].author_time <= commits[j].author_time]_vars

\* a pass is at its insert for origin/main with a cursor it read from the
\* store, while the store holds a row of the other repository with a greater
\* author_time than every row of that branch, and rows of origin/feature
C29_Witness ==
    \E i \in 1..Len(tasks) :
       /\ tasks[i].pc = "write"
       /\ tasks[i].list[tasks[i].bi].name = <<"origin", "main">>
       /\ tasks[i].since # NoOid
       /\ \E j \in 1..Len(commits) :
             /\ commits[j].repository_id # tasks[i].rid
             /\ \A k \in RowsAtBranch(commits, tasks[i]) :
                   commits[k].author_time < commits[j].author_time
       /\ \E j \in 1..Len(commits) :
             /\ commits[j].repository_id = tasks[i].rid
             /\ commits[j].branch = <<"origin", "feature">>

-----------------------------------------------------------------------------
\* the oids stored for a branch of a repository
OidsStored(rows, rid, name) ==
    {rows[j].oid : j \in {k \in 1..Len(rows) : /\ rows[k].repository_id = rid
                                                /\ rows[k].branch = name}}

\* C30: for a branch whose history is shorter than max_commits_per_branch,
\* after every index pass that reports the branch as indexed, every
\* non-merge commit reachable from the branch tip is stored for that
\* (repository_id, branch): incremental cursoring leaves no reachable
\* non-merge commit unindexed
C30_IncrementalComplete ==
    (/\ last.op = "index_repository"
     /\ last.status = "ok"
     /\ last.result.branches_failed = 0
     /\ limitCfg = DefaultMaxCommitsPerBranch
     /\ refs["p1"][RefName(<<"origin", "main">>)] # NoOid)
    => StoredUpTo(odb, refs["p1"][RefName(<<"origin", "main">>)])
          \subseteq OidsStored(commits, last.rid, <<"origin", "main">>)

-----------------------------------------------------------------------------
(* Specification SpecDetached: one cycle, the fetch of a task on its        *)
(* blocking thread and the task's steps apart                               *)

\* step 2 of the task: timeout(fetch_timeout, fetch_repository(..)).await
\* returns.  The fetch runs in spawn_blocking: when it returned Ok or Err it
\* is over; when the timeout fired, the future is dropped and the closure
\* goes on running on its thread.  The task enters worker.index_repository
StepFetchDetached(i) ==
    /\ tasks[i].pc = "sync"
    /\ \E how \in {"ok", "err", "timeout"} :
       \E tip \in TipsAfterFetch(tasks[i].path, how) :
          /\ refs' = FetchEffect(tasks[i].path, tip)
          /\ tasks' = [tasks EXCEPT ![i] =
                         [fetching |-> how = "timeout"] @@ PassFields
                         @@ [@ EXCEPT !.pc = "list", !.fetch = how]]
    /\ UNCHANGED <<odb, repositories, branches, commits, now, scanOrder,
                   limitCfg, state, stats, moves, cycles, triggers, fs, last>>

\* the closure of a fetch that outlived its timeout returns on its thread:
\* remote.fetch has updated the remote-tracking refs, or has failed
FetchEnds(i) ==
    /\ InPass(tasks[i])
    /\ tasks[i].fetching
    /\ \E how \in {"ok", "err"} :
       \E tip \in TipsAfterFetch(tasks[i].path, how) :
          refs' = FetchEffect(tasks[i].path, tip)
    /\ tasks' = [tasks EXCEPT ![i].fetching = FALSE]
    /\ UNCHANGED <<odb, repositories, branches, commits, now, scanOrder,
                   limitCfg, state, stats, moves, cycles, triggers, fs, last>>

NextDetached ==
    \/ StartCycle
    \/ \E i \in 1..Len(tasks) : TaskFind(i)
    \/ \E i \in 1..Len(tasks) : TaskSave(i)
    \/ \E i \in 1..Len(tasks) : StepFetchDetached(i)
    \/ \E i \in 1..Len(tasks) : FetchEnds(i)
    \/ \E i \in 1..Len(tasks) : StepBranches(i)
    \/ \E i \in 1..Len(tasks) : StepRead(i)
    \/ \E i \in 1..Len(tasks) : StepWrite(i)
    \/ FinishCycle

SpecDetached == InitSteps /\ [][NextDetached]_vars

\* C31: within one repository's scheduled task the operations on the working
\* copy are strictly sequential: while the task is inside the Index Worker
\* (listing branches, reading or inserting commits), the fetch that task
\* started is no longer running, the timed-out fetch included
C31_FetchOverBeforeIndex ==
    \A i \in 1..Len(tasks) :
       (InPass(tasks[i]) /\ tasks[i].pc \in {"list", "read", "write"})
       => ~tasks[i].fetching

-----------------------------------------------------------------------------
\* C32: in every index_repository pass in which list_branches succeeds (and
\* the store takes the batch), every branch it returned has its row in the
\* Branch store after the pass, with the listed target and head flag, whether
\* or not its name starts with origin/ and whatever became of the commit
\* indexing of each branch
C32_BranchListPersisted ==
    (/\ last.op = "faulty_pass"
     /\ ~last.faults.list
     /\ ~last.faults.save)
    => LET list == ListBranches(refs[last.path])
       IN  \A k \in 1..Len(list) :
              \E b \in branches : /\ b.repository_id = last.rid
                                  /\ b.name = list[k].name
                                  /\ b.target_oid = list[k].target_oid
                                  /\ b.is_default = list[k].is_head

\* a pass in which the indexing of every origin branch failed: the row of
\* upstream/dev and the rows of the origin branches are stored, and no commit
C32_Witness ==
    /\ last.op = "faulty_pass"
    /\ ~last.faults.list
    /\ ~last.faults.save
    /\ last.result.branches_failed = 2
    /\ last.result.branches_indexed = 0
    /\ commits = <<>>
    /\ \E b \in branches : b.name = <<"upstream", "dev">>
    /\ \E b \in branches : b.name = <<"origin", "main">>


\* the task returned an error: the repository-row lookup or save failed (the
\* task never reached the pass) or list_branches / the branch save failed
ReturnedError(t) == ~InPass(t) \/ t.index = "err"

\* the task panicked: its JoinHandle yields a JoinError
Panicked(t) == t.outcome = "panic"

FailedTasks(ts) == {i \in 1..Len(ts) : ReturnedError(ts[i]) \/ Panicked(ts[i])}

\* C33: in the statistics of a finished cycle a repository is counted as
\* failed exactly when its task returned an error (row lookup or save,
\* list_branches or branch save) or panicked, and as synced otherwise: every
\* other task completed its pass, whatever number of branches failed in it
C33_Classification ==
    last.op = "cycle" =>
       /\ last.stats.repos_failed = Cardinality(FailedTasks(last.tasks))
       /\ last.stats.repos_synced =
             Len(last.tasks) - Cardinality(FailedTasks(last.tasks))
       /\ \A i \in 1..Len(last.tasks) :
             i \notin FailedTasks(last.tasks) =>
                /\ last.tasks[i].index = "ok"
                /\ last.tasks[i].result.branches_failed \in 0..Len(last.tasks[i].list)

\* a cycle in which one repository lost every branch and is counted as
\* synced, and the other panicked and is counted as failed
C33_Witness ==
    /\ last.op = "cycle"
    /\ last.stats.repos_synced = 1
    /\ last.stats.repos_failed = 1
    /\ \E i, j \in 1..Len(last.tasks) :
          /\ last.tasks[i].index = "ok"
          /\ last.tasks[i].result.branches_failed > 0
          /\ last.tasks[i].result.branches_indexed = 0
          /\ Panicked(last.tasks[j])


\* ---------------------------------------------------------------------------
\* The mutating handlers of the external layer: api_cherry_pick, api_push and
\* api_merge, each run on the working copy of one registered repository
\* ---------------------------------------------------------------------------

\* the tips a successful `git push origin <branch>` can leave in the
\* remote-tracking ref: the local branch is at or ahead of it
PushedTips == {5, 6}

TipsAfterPush(p) ==
    LET cur == refs[p][RefName(<<"origin", "main">>)]
    IN  {cur} \cup {t \in PushedTips : cur \in Reachable(odb, t)}

\* `worker.index_repository` as the handlers call it; an Err is logged and
\* dropped (if let Err(e) = ...)
HandlerIndex(id, pathRefs, f) ==
    IndexRepository(branches, commits, id, odb, pathRefs, limitCfg, scanOrder, now, f)

\* the response of a handler and what it did before returning it: whether
\* index_repository was invoked, and whether it read the refs the handler left
Responded(op, id, success, indexed, fresh) ==
    last' = [op |-> op, id |-> id, success |-> success, indexed |-> indexed,
             fresh |-> fresh]

\* api_cherry_pick and api_merge: git fetch origin, checkout -B of the local
\* target, then the cherry-picks or the merge; every return is a response
\* built from the git exit codes, no index_repository call
ApiLocalMutation(op, id) ==
    /\ moves < MaxMoves
    /\ moves' = moves + 1
    /\ LET p == FindById(repositories, id).path
       IN  \E fetched \in BOOLEAN :
              IF ~fetched
              THEN /\ Responded(op, id, FALSE, FALSE, FALSE)
                   /\ UNCHANGED refs
              ELSE /\ \E tip \in TipsAfterFetch(p, "ok") : refs' = FetchEffect(p, tip)
                   /\ \E applied \in BOOLEAN : Responded(op, id, applied, FALSE, FALSE)
    /\ UNCHANGED <<odb, repositories, branches, commits, now, scanOrder, limitCfg,
                   state, tasks, stats, cycles, triggers, fs>>

ApiCherryPick(id) == ApiLocalMutation("cherry_pick", id)

ApiMerge(id) == ApiLocalMutation("merge", id)

\* api_push: git push; on success index_repository and respond; on a rejected
\* push pull --rebase, index_repository, and on a successful rebase push again
\* and respond with the second push's result
ApiPush(id) ==
    /\ moves < MaxMoves
    /\ moves' = moves + 1
    /\ LET p == FindById(repositories, id).path
       IN  \E how \in {"pushed", "failed", "rejected"} :
           \E f \in {NoFault, [NoFault EXCEPT !.list = TRUE]} :
              CASE how = "pushed" ->
                      \E tip \in TipsAfterPush(p) :
                         LET after == FetchEffect(p, tip)
                             r == HandlerIndex(id, after[p], f)
                         IN  /\ refs' = after
                             /\ branches' = r.branches
                             /\ commits' = r.rows
                             /\ Responded("push", id, TRUE, TRUE, TRUE)
                [] how = "failed" ->
                      /\ Responded("push", id, FALSE, FALSE, FALSE)
                      /\ UNCHANGED <<refs, branches, commits>>
                [] how = "rejected" ->
                      \E pulled \in TipsAfterFetch(p, "ok") :
                      \E rebased, retried \in BOOLEAN :
                         LET seen == FetchEffect(p, pulled)
                             r == HandlerIndex(id, seen[p], f)
                             tips == IF rebased /\ retried
                                     THEN {t \in PushedTips : pulled \in Reachable(odb, t)}
                                          \cup {pulled}
                                     ELSE {pulled}
                         IN  /\ branches' = r.branches
                             /\ commits' = r.rows
                             /\ \E tip \in tips :
                                   /\ refs' = FetchEffect(p, tip)
                                   /\ Responded("push", id, rebased /\ retried, TRUE,
                                                tip = pulled)
    /\ UNCHANGED <<odb, repositories, now, scanOrder, limitCfg, state, tasks,
                   stats, cycles, triggers, fs>>

NextMutate ==
    \/ \E id \in {1, 2} : ApiCherryPick(id)
    \/ \E id \in {1, 2} : ApiPush(id)
    \/ \E id \in {1, 2} : ApiMerge(id)

\* both repositories registered and indexed at their current refs
BothIndexed(g, limit, order) ==
    LET a == IndexRepository({}, <<>>, 1, g, ReentrantRefs["p1"], limit, order, 0,
                             NoFault)
    IN  IndexRepository(a.branches, a.rows, 2, g, ReentrantRefs["p2"], limit, order,
                        0, NoFault)

InitMutate ==
    /\ odb \in {IndexHistory(at) : at \in IndexATimes}
    /\ refs = ReentrantRefs
    /\ repositories = <<RepoA, [id |-> 2] @@ NewRepository("p2", "p2", 0)>>
    /\ scanOrder \in ScanOrders
    /\ limitCfg \in {2, DefaultMaxCommitsPerBranch}
    /\ branches = BothIndexed(odb, limitCfg, scanOrder).branches
    /\ commits = BothIndexed(odb, limitCfg, scanOrder).rows
    /\ SchedulerIdle
    /\ fs = NoDisk
    /\ now = 0
    /\ last = [op |-> "none"]

SpecMutate == InitMutate /\ [][NextMutate]_vars

\* C34: whenever a mutating handler (cherry-pick, push, merge) responds with
\* success, it has invoked index_repository for that repository after its
\* last change to the working copy, before returning the response
C34_ReindexAfterMutation ==
    (last.op \in {"cherry_pick", "push", "merge"} /\ last.success) =>
       last.indexed /\ last.fresh


\* ---------------------------------------------------------------------------
\* The comparison view: repo_diff's anti-join over the stored commits and its
\* `git cherry` run on the working copy
\* ---------------------------------------------------------------------------

\* the summaries and the patch identities of the commits of the compared
\* branches: a cherry-pick keeps the patch and may reword the summary
CompareSummaries == {"fix", "add"}

ComparePatches == {1, 2}

CompareHistory(s, f) ==
    [o \in 1..Len(IndexParents) |->
        Object(IndexParents[o], IndexCTimes[o], IndexCTimes[o], "a", s[o])
        @@ [patch |-> f[o]]]

\* git's resolution of a revision "<remote>/<branch>" to a remote-tracking ref
RevParse(pathRefs, name) ==
    IF RefName(name) \in DOMAIN pathRefs THEN pathRefs[RefName(name)] ELSE NoOid

\* `git cherry <upstream> <head>`: the commits of head not in upstream, those
\* with a patch-equivalent commit in upstream marked "-"; the command fails on
\* a revision it cannot resolve
GitCherry(g, pathRefs, upstream, head) ==
    LET u == RevParse(pathRefs, upstream)
        h == RevParse(pathRefs, head)
    IN  IF u = NoOid \/ h = NoOid THEN [ok |-> FALSE, minus |-> {}]
        ELSE [ok |-> TRUE,
              minus |-> {c \in Reachable(g, h) \ Reachable(g, u) :
                           \E d \in Reachable(g, u) \ Reachable(g, h) :
                              g[d].patch = g[c].patch}]

\* repo_diff: the anti-join on the query's branch names, git cherry on
\* origin/<n> and origin/<o>, and the is_empty mark of each returned commit
RepoDiffItems(rows, g, pathRefs, rid, o, n, order) ==
    LET found == FindDiffCommits(rows, rid, o, n, DiffLimit, order)
        cherry == GitCherry(g, pathRefs, <<"origin">> \o n, <<"origin">> \o o)
        empty_commits == IF cherry.ok THEN cherry.minus ELSE {}
    IN  [k \in 1..Len(found) |->
           [sha |-> found[k].oid, is_empty |-> found[k].oid \in empty_commits]]

QueryNames == {<<"origin", "main">>, <<"origin", "feature">>, <<"main">>, <<"feature">>}

CallRepoDiff ==
    /\ \E o, n \in QueryNames :
          last' = [op |-> "repo_diff", o |-> o, n |-> n,
                   items |-> RepoDiffItems(commits, odb, refs["p1"], 1, o, n, scanOrder)]
    /\ UNCHANGED <<odb, refs, repositories, branches, commits, now, scanOrder, limitCfg,
                   state, tasks, stats, moves, cycles, triggers, fs>>

InitCompare ==
    /\ odb \in {CompareHistory(s, f) :
                  s \in [1..Len(IndexParents) -> CompareSummaries],
                  f \in [1..Len(IndexParents) -> ComparePatches]}
    /\ \A o \in 4..Len(IndexParents) : odb[o].summary = "fix" /\ odb[o].patch = 1
    /\ refs = ReentrantRefs
    /\ repositories = <<RepoA, [id |-> 2] @@ NewRepository("p2", "p2", 0)>>
    /\ scanOrder \in {"rowid", "time_index"}
    /\ limitCfg = DefaultMaxCommitsPerBranch
    /\ branches = BothIndexed(odb, limitCfg, scanOrder).branches
    /\ commits = BothIndexed(odb, limitCfg, scanOrder).rows
    /\ SchedulerIdle
    /\ fs = NoDisk
    /\ now = 0
    /\ last = [op |-> "none"]

SpecCompare == InitCompare /\ [][CallRepoDiff]_vars

\* the branch names under which the commits table holds rows of repository 1
StoredBranchNames == {commits[i].branch : i \in {j \in 1..Len(commits) :
                                                   commits[j].repository_id = 1}}

\* C35: for two branch names under which commits are stored, a commit the
\* anti-join returned is marked already-applied exactly when git cherry of
\* those same two branches classifies it as already applied
C35_MarkedIffCherryApplied ==
    (/\ last.op = "repo_diff"
     /\ last.o \in StoredBranchNames
     /\ last.n \in StoredBranchNames) =>
       \A k \in 1..Len(last.items) :
          last.items[k].is_empty <=>
             last.items[k].sha \in GitCherry(odb, refs["p1"], last.n, last.o).minus


\* the branch HEAD points to, as a branch name without remote ("main")
HeadBranch == SubSeq(HeadName, 3, Len(HeadName))

\* C36: HEAD points to a branch; after a pass whose listing and branch save
\* succeeded, the listed record of HEAD's branch has is_head true and its
\* stored row is_default true, and every other record and row has it false
C36_HeadFlag ==
    (/\ last.op = "faulty_pass"
     /\ ~last.faults.list
     /\ ~last.faults.save) =>
       LET list == ListBranches(refs[last.path])
       IN  \A k \in 1..Len(list) :
              /\ list[k].is_head <=> (Tail(list[k].name) = HeadBranch)
              /\ \E b \in branches :
                    /\ b.repository_id = last.rid
                    /\ b.name = list[k].name
                    /\ b.is_default <=> (Tail(list[k].name) = HeadBranch)


\* the Branch rows and the Commit rows of one repository
BranchRowsOf(bset, rid) == {b \in bset : b.repository_id = rid}

RECURSIVE CommitRowsOf(_, _)
CommitRowsOf(rows, rid) ==
    IF rows = <<>> THEN <<>>
    ELSE (IF Head(rows).repository_id = rid THEN <<Head(rows)>> ELSE <<>>)
         \o CommitRowsOf(Tail(rows), rid)

\* a task inside its index_repository pass for repository rid takes a step
PassSteps(rid) ==
    \E i \in 1..Len(tasks) :
       /\ InPass(tasks[i]) /\ tasks[i].rid = rid
       /\ i \in DOMAIN tasks' /\ tasks'[i] # tasks[i]

\* C37: a step changes the Branch rows or the Commit rows of repository r
\* only if it is a step of an index_repository pass for r: a pass for one
\* repository leaves the rows of every other repository as they were
C37_RepositoryIsolation ==
    [][\A r \in 1..2 :
          (\/ BranchRowsOf(branches', r) # BranchRowsOf(branches, r)
           \/ CommitRowsOf(commits', r) # CommitRowsOf(commits, r)) => PassSteps(r)]_vars

\* both repositories hold a Branch row of the same name and a Commit row of
\* the same oid and branch, written by the two passes of one cycle
C37_Witness ==
    /\ last.op = "cycle"
    /\ \E b1, b2 \in branches :
          b1.repository_id = 1 /\ b2.repository_id = 2 /\ b1.name = b2.name
    /\ \E i, j \in 1..Len(commits) :
          /\ commits[i].repository_id = 1 /\ commits[j].repository_id = 2
          /\ commits[i].oid = commits[j].oid /\ commits[i].branch = commits[j].branch


\* C38: every Commit row has a branch name starting with origin/, and a
\* Branch row of the same repository_id and name is stored
C38_CommitRowsHaveBranchRow ==
    \A i \in 1..Len(commits) :
       /\ commits[i].branch[1] = "origin"
       /\ \E b \in branches : BranchKey(b) = <<commits[i].repository_id, commits[i].branch>>

\* a finished cycle that wrote commit rows for both repositories and stored a
\* branch outside origin/, for which no commit row exists
C38_Witness ==
    /\ last.op = "cycle"
    /\ \A r \in 1..2 : CommitRowsOf(commits, r) # <<>>
    /\ \E b \in branches :
          /\ b.name[1] # "origin"
          /\ \A i \in 1..Len(commits) : commits[i].branch # b.name


\* C39: a pass whose list_branches fails, or whose branch batch upsert fails,
\* returns an error and leaves the Branch rows and the Commit rows exactly as
\* they were: no row of the batch and no commit is written
C39_FailedListOrSaveWritesNothing ==
    [][(/\ last'.op = "faulty_pass"
        /\ \/ last'.faults.list
           \/ last'.faults.save /\ ListBranches(refs[last'.path]) # <<>>) =>
          /\ last'.status = "err"
          /\ branches' = branches
          /\ commits' = commits]_vars

\* the branch save failed in a pass that followed a clean pass and a fetch:
\* the stored row of origin/main still has the target of before the fetch,
\* and no commit of the fetched range is stored
C39_Witness ==
    /\ last.op = "faulty_pass"
    /\ last.faults.save
    /\ last.status = "err"
    /\ commits # <<>>
    /\ \E b \in branches :
          /\ b.name = <<"origin", "main">>
          /\ b.target_oid # refs[last.path][RefName(<<"origin", "main">>)]
    /\ \A i \in 1..Len(commits) :
          commits[i].oid # refs[last.path][RefName(<<"origin", "main">>)]


\* the task saved the row of a repository that had none (find_by_path
\* returned None) and went on
CreatedRow(t) == "found" \in DOMAIN t /\ t.found.id = 0 /\ t.rid # 0

\* C40: on the scheduled path last_synced_at of a stored row changes only in
\* the save of a task that found the row, to the current time, and that task
\* goes on to its fetch and index afterwards; a row created by a task has an
\* empty last_synced_at when it is written and keeps it to the end of the cycle
C40_SyncTimestamp ==
    /\ [][\A k \in 1..Len(repositories') :
             IF k <= Len(repositories)
             THEN repositories'[k].last_synced_at # repositories[k].last_synced_at =>
                     \E i \in 1..Len(tasks) :
                        /\ tasks[i].pc = "save" /\ tasks'[i].pc = "sync"
                        /\ tasks[i].found.id = repositories[k].id
                        /\ repositories'[k].last_synced_at = now
             ELSE repositories'[k].last_synced_at = NoTime]_vars
    /\ [](\A i \in 1..Len(tasks) :
             CreatedRow(tasks[i]) =>
                FindById(repositories, tasks[i].rid).last_synced_at = NoTime)
    /\ [](last.op = "cycle" =>
             \A i \in 1..Len(last.tasks) :
                CreatedRow(last.tasks[i]) =>
                   FindById(repositories, last.tasks[i].rid).last_synced_at = NoTime)

\* a finished cycle in which the repository that had a row failed to index
\* and has its last_synced_at set to the cycle's time, and the repository
\* created in the cycle was indexed and has none
C40_Witness ==
    /\ last.op = "cycle"
    /\ \E i, j \in 1..Len(last.tasks) :
          /\ InPass(last.tasks[i])
          /\ last.tasks[i].found.id # 0
          /\ last.tasks[i].outcome = "err"
          /\ FindById(repositories, last.tasks[i].rid).last_synced_at = now
          /\ CreatedRow(last.tasks[j])
          /\ last.tasks[j].outcome = "ok"
          /\ FindById(repositories, last.tasks[j].rid).last_synced_at = NoTime

====
